---- MODULE Spec2Model ----
(***************************************************************************)
(* State-machine model of the novelist memory stores (facts, foreshadowing,*)
(* episodic recap) and of the swarm and two-stage scene pipelines.         *)
(***************************************************************************)
EXTENDS Integers, Sequences, FiniteSets, TLC

VARIABLES
    max_facts,       \* FactsManager.max_facts
    facts,           \* memory/facts.json: the "facts" array
    archive,         \* memory/facts_archive.json: the "facts" array
    factLog,         \* history: every Fact built by add_fact, in call order
    foreshadowings,  \* memory/foreshadow.json: the "foreshadowings" array
    lastCall,        \* history: the last store operation called, with its arguments
    max_scenes,      \* EpisodicMemoryManager.max_scenes
    episodic,        \* memory/episodic.md, as its sequence of lines
    sceneLog,        \* history: every block add_scene_summary was called with
    pc,              \* SwarmPipeline.generate_scene: the statement it is at
    enable_revision, \* SwarmPipeline.enable_revision
    current_scene,   \* session.context.current_scene
    chapters,        \* chapters/chapter_NNN.md: chapter number -> content (Null: no file)
    run,             \* the locals of the generate_scene call in progress
    stages,          \* history: the stages this generate_scene call has invoked
    nruns,           \* history: the number of generate_scene calls started
    run_log,         \* runs/session_<id>.jsonl: the turns Session.log_turn appended
    key_facts,       \* session.context.key_facts, each fact as its length
    episode_summary, \* session.context.episode_summary, as its length
    project_docs,    \* bible.md and the character cards, as the lengths of their text
    budgets,         \* config.yaml: context.budgets
    prompt,          \* the context blocks of the prompt _build_prompt last assembled
    documents,       \* SimpleRetriever.documents, in insertion order
    embedder,        \* SimpleRetriever.embedder: vocab, idf and _doc_count
    fitted,          \* SimpleRetriever._fitted
    index_file,      \* .index/default_rag.json (Null: no file)
    results,         \* what the last search or search_for_agent call returned
    ragCall,         \* history: the last retriever call, and the adds since a build
    provider_config, \* config.yaml: provider (default, routing, available)
    providers,       \* ProviderRouter._providers: role -> instance (0: not cached)
    factory,         \* history: per role, ProviderFactory.create calls and returns
    routerCall,      \* history: the last get_provider call and its outcome
    usage_log,       \* CostTracker.usage_log
    last_summary,    \* what the last get_summary call returned
    log_file,        \* runs/<run_id>.jsonl, as its sequence of lines
    buffer,          \* ExecutionLogger.buffer
    logged,          \* history: every entry ExecutionLogger.log built, in call order
    logCall,         \* history: the last ExecutionLogger call and the file before it
    health,          \* history: the healthcheck calls made, each with the server's answer and the outcome
    stream,          \* the generate_stream call in progress: provider, frames received, frames read, texts yielded
    unparsable,      \* per store file: it exists and its text is no JSON (the array above is then not in it)
    session_file     \* .sessions/<session_id>.json: whether it exists and the current_scene in it

vars == <<max_facts, facts, archive, factLog, foreshadowings, lastCall,
          max_scenes, episodic, sceneLog,
          pc, enable_revision, current_scene, chapters, run, stages, nruns,
          run_log,
          key_facts, episode_summary, project_docs, budgets, prompt,
          documents, embedder, fitted, index_file, results, ragCall,
          provider_config, providers, factory, routerCall,
          usage_log, last_summary,
          log_file, buffer, logged, logCall,
          health,
          stream,
          unparsable,
          session_file>>

factsVars == <<max_facts, facts, archive, factLog>>
fsVars == <<foreshadowings>>
episodicVars == <<max_scenes, episodic, sceneLog>>
pipelineVars == <<pc, enable_revision, current_scene, chapters, run, stages, nruns,
                  run_log>>
promptVars == <<key_facts, episode_summary, project_docs, budgets, prompt>>
ragVars == <<documents, embedder, fitted, index_file, results, ragCall>>
routerVars == <<provider_config, providers, factory, routerCall>>
costVars == <<usage_log, last_summary>>
loggerVars == <<log_file, buffer, logged, logCall>>
healthVars == <<health>>
streamVars == <<stream>>
fileVars == <<unparsable>>
sessionFileVars == <<session_file>>
toolVars == <<loggerVars, healthVars, streamVars, fileVars, sessionFileVars>>
libVars == <<promptVars, ragVars, routerVars, costVars, toolVars>>

----------------------------------------------------------------------------
(* Bounds of the model.                                                    *)

MaxFactsLimit == 3      \* max_facts ranges over 1..MaxFactsLimit
MaxAdds == 6            \* add_fact calls per behaviour
MaxPlants == 2          \* plant_foreshadowing calls per behaviour
MaxScenesLimit == 2     \* max_scenes ranges over 1..MaxScenesLimit
MaxSummaries == 4       \* add_scene_summary calls per behaviour
MaxRuns == 2            \* generate_scene calls per behaviour

Chapters == {1, 2}      \* chapter numbers passed by callers
SceneNos == {1, 2}      \* scene numbers passed by callers

Contents == {"c1", "c2"}
Null == "None"          \* Python's None, where a str is optional
NoCall == [op |-> "none", id |-> Null]

Roles == {"director", "writer", "checker"}   \* the agent types callers pass

----------------------------------------------------------------------------
(* Python helpers.                                                         *)

\* f"{n:03d}": decimal, zero-padded to width 3
Pad3(n) ==
    IF n < 10 THEN "00" \o ToString(n)
    ELSE IF n < 100 THEN "0" \o ToString(n)
    ELSE ToString(n)

\* f"chapter_{chapter:03d}"
ChapterId(c) == "chapter_" \o Pad3(c)

\* s[-n:] for n >= 0 (s[-0:] is the whole list)
LastN(s, n) ==
    IF n = 0 \/ n >= Len(s) THEN s
    ELSE SubSeq(s, Len(s) - n + 1, Len(s))

\* s[:-n] for n >= 0 (s[:-0] is empty)
AllButLastN(s, n) ==
    IF n = 0 \/ n >= Len(s) THEN <<>>
    ELSE SubSeq(s, 1, Len(s) - n)

----------------------------------------------------------------------------
(* FactsManager                                                            *)

archive_facts_overwrite(existing, overflow) == overflow

\* _archive_facts: the archive file's list, extended by the overflowed facts
archive_facts(existing, overflow) == existing \o overflow

\* add_fact: the id, the facts saved and the archive after the call
add_fact(fs, arch, limit, content, source) ==
    LET fact_id == "f" \o Pad3(Len(fs) + 1)
        fact == [id |-> fact_id, content |-> content, source |-> source]
        appended == Append(fs, fact)
    IN  IF Len(appended) > limit
        THEN [id |-> fact_id, fact |-> fact,
              facts |-> LastN(appended, limit),
              archive |-> archive_facts(arch, AllButLastN(appended, limit))]
        ELSE [id |-> fact_id, fact |-> fact, facts |-> appended, archive |-> arch]

AddFact ==
    /\ Len(factLog) < MaxAdds
    /\ \E content \in Contents :
         LET r == add_fact(facts, archive, max_facts, content, ChapterId(1))
         IN  /\ facts' = r.facts
             /\ archive' = r.archive
             /\ factLog' = Append(factLog, r.fact)
             /\ lastCall' = [op |-> "add_fact", id |-> r.id]
    /\ UNCHANGED <<libVars, max_facts, fsVars, episodicVars, pipelineVars>>

\* the report CommitterAgent.commit starts from
EmptyReport ==
    [episodic_updated |-> FALSE, facts_added |-> <<>>,
     foreshadowing_resolved |-> <<>>, foreshadowing_planted |-> <<>>]

\* the files and the scene counter as a generate_scene call finds them
Snapshot ==
    [episodic |-> episodic, facts |-> facts, archive |-> archive,
     foreshadowings |-> foreshadowings, chapters |-> chapters,
     current_scene |-> current_scene]

\* a new project as a call finds it
NoSnapshot ==
    [episodic |-> <<>>, facts |-> <<>>, archive |-> <<>>, foreshadowings |-> <<>>,
     chapters |-> [c \in Chapters |-> Null], current_scene |-> 1]

NoRun == [chapter |-> 0, scene |-> 0, scenespec |-> Null, text |-> Null,
          issues |-> <<>>, revision_made |-> FALSE, report |-> EmptyReport,
          before |-> NoSnapshot, error |-> Null,
          audit |-> [rule |-> <<>>, failed |-> FALSE],
          writer_text |-> Null, edit_failed |-> FALSE]

\* no generate_scene call yet: a new session, no chapter file
InitPipeline ==
    /\ pc = "idle"
    /\ current_scene = 1
    /\ chapters = [c \in Chapters |-> Null]
    /\ run = NoRun
    /\ stages = <<>>
    /\ nruns = 0
    /\ run_log = <<>>

\* ConfigManager's default context.budgets
DefaultBudgets == [bible |-> 1500, characters |-> 1200, facts |-> 600,
                   recap |-> 400, icl |-> 600]

\* no prompt assembled yet
NoPrompt == [built |-> FALSE, retrieved |-> 0, bible |-> 0, characters |-> 0,
             facts |-> 0, recap |-> 0]

\* no session context, no prompt assembled
NoSession ==
    /\ key_facts = <<>>
    /\ episode_summary = 0
    /\ project_docs = [bible |-> 0, characters |-> 0]
    /\ budgets = DefaultBudgets
    /\ prompt = NoPrompt

\* a SimpleRetriever on a project without an index file
NoRetriever ==
    /\ documents = <<>>
    /\ embedder = [vocab |-> {}, idf |-> [t \in {} |-> 0]]
    /\ fitted = FALSE
    /\ index_file = [exists |-> FALSE]
    /\ results = <<>>
    /\ ragCall = [op |-> "none", stale |-> FALSE, adds |-> 0]

\* a ProviderRouter that has been asked for no provider
NoRouter ==
    /\ provider_config = [default |-> "local_ollama"]
    /\ providers = [r \in Roles |-> 0]
    /\ factory = [r \in Roles |-> [calls |-> 0, returns |-> 0]]
    /\ routerCall = [role |-> Null, outcome |-> "none", calls |-> 0]

\* a CostTracker with nothing logged
\* get_summary has not been called
NoSummary == [taken |-> FALSE]

NoTracker ==
    /\ usage_log = <<>>
    /\ last_summary = NoSummary

\* an ExecutionLogger that has logged nothing: no run file yet
NoLogger ==
    /\ log_file = <<>>
    /\ buffer = <<>>
    /\ logged = <<>>
    /\ logCall = [op |-> "none", returned |-> TRUE, before |-> <<>>, raises |-> 0]

\* no healthcheck made
NoHealth == health = <<>>

\* no generate_stream call made
NoStream == stream = [provider |-> Null, frames |-> <<>>, pos |-> 0, yielded |-> <<>>,
                    status |-> "none"]

\* facts.json and foreshadow.json are absent or hold what save wrote
Parsable == unparsable = [facts |-> FALSE, foreshadow |-> FALSE]

\* Session.__init__ writes no file: a new session has none
NoSessionFile == session_file = [exists |-> FALSE, current_scene |-> 0]

InitStores ==
    /\ InitPipeline
    /\ enable_revision = TRUE
    /\ facts = <<>>
    /\ archive = <<>>
    /\ factLog = <<>>
    /\ foreshadowings = <<>>
    /\ lastCall = NoCall
    /\ episodic = <<>>
    /\ sceneLog = <<>>

InitFacts ==
    /\ InitStores
    /\ NoSession /\ NoRetriever /\ NoRouter /\ NoTracker /\ NoLogger /\ NoHealth /\ NoStream /\ Parsable /\ NoSessionFile
    /\ max_facts \in 1..MaxFactsLimit
    /\ max_scenes = 1

NextFacts == AddFact

SpecFacts == InitFacts /\ [][NextFacts]_vars

----------------------------------------------------------------------------
(* ForeshadowingManager                                                    *)

Notes == {Null, "n1"}    \* the notes resolve_foreshadowing is called with
Reasons == {Null}        \* the reasons abandon_foreshadowing is called with

\* Python's `x or default` on an optional str
OrElse(x, default) == IF x = Null \/ x = "" THEN default ELSE x

FirstMatchAnyId(fss, fs_id) == IF fss = <<>> THEN 0 ELSE 1

\* the index of the first entry whose id is fs_id, 0 when there is none
\* (the for loop with its break)
FirstMatch(fss, fs_id) ==
    IF \E i \in 1..Len(fss) : fss[i].id = fs_id
    THEN CHOOSE i \in 1..Len(fss) :
           /\ fss[i].id = fs_id
           /\ \A j \in 1..(i - 1) : fss[j].id # fs_id
    ELSE 0

\* x in list
InSeq(x, s) == \E i \in 1..Len(s) : s[i] = x

plant_id_by_unresolved(fss) ==
    "fs" \o Pad3(Cardinality({i \in 1..Len(fss) : fss[i].status = "unresolved"}) + 1)

\* the id plant_foreshadowing generates
plant_id(fss) == "fs" \o Pad3(Len(fss) + 1)

\* plant_foreshadowing: the list saved
plant_foreshadowing(fss, content, chapter) ==
    Append(fss, [id |-> plant_id(fss),
                 content |-> content,
                 status |-> "unresolved",
                 created_in |-> chapter,
                 related_chapters |-> <<chapter>>,
                 resolution_chapter |-> Null,
                 resolution_note |-> Null,
                 priority |-> "medium"])

resolve_without_chapter(fss, fs_id, chapter, note) ==
    LET i == FirstMatch(fss, fs_id)
    IN  IF i = 0 THEN fss
        ELSE [fss EXCEPT ![i].status = "resolved",
                         ![i].resolution_note = OrElse(note, "")]

\* resolve_foreshadowing: the list saved
resolve_foreshadowing(fss, fs_id, chapter, note) ==
    LET i == FirstMatch(fss, fs_id)
    IN  IF i = 0 THEN fss
        ELSE [fss EXCEPT ![i].status = "resolved",
                         ![i].resolution_chapter = chapter,
                         ![i].resolution_note = OrElse(note, ""),
                         ![i].related_chapters =
                             IF InSeq(chapter, @) THEN @ ELSE Append(@, chapter)]

\* abandon_foreshadowing: the list saved
abandon_foreshadowing(fss, fs_id, chapter, reason) ==
    LET i == FirstMatch(fss, fs_id)
    IN  IF i = 0 THEN fss
        ELSE [fss EXCEPT ![i].status = "abandoned",
                         ![i].resolution_chapter = chapter,
                         ![i].resolution_note = OrElse(reason, "Abandoned")]

\* the ids callers pass: those of the entries planted, and one never planted
FsIds == {"fs" \o Pad3(n) : n \in 1..(MaxPlants + 1)}

Plant ==
    /\ Len(foreshadowings) < MaxPlants
    /\ \E content \in Contents :
         /\ foreshadowings' = plant_foreshadowing(foreshadowings, content, ChapterId(1))
         /\ lastCall' = [op |-> "plant", id |-> plant_id(foreshadowings)]
    /\ UNCHANGED <<libVars, factsVars, episodicVars, pipelineVars>>

Resolve ==
    /\ \E fs_id \in FsIds, ch \in Chapters, note \in Notes :
         /\ foreshadowings' =
                resolve_foreshadowing(foreshadowings, fs_id, ChapterId(ch), note)
         /\ lastCall' = [op |-> "resolve", id |-> fs_id]
    /\ UNCHANGED <<libVars, factsVars, episodicVars, pipelineVars>>

Abandon ==
    /\ \E fs_id \in FsIds, ch \in Chapters, reason \in Reasons :
         /\ foreshadowings' =
                abandon_foreshadowing(foreshadowings, fs_id, ChapterId(ch), reason)
         /\ lastCall' = [op |-> "abandon", id |-> fs_id]
    /\ UNCHANGED <<libVars, factsVars, episodicVars, pipelineVars>>

InitForeshadowing ==
    /\ InitStores
    /\ NoSession /\ NoRetriever /\ NoRouter /\ NoTracker /\ NoLogger /\ NoHealth /\ NoStream /\ Parsable /\ NoSessionFile
    /\ max_facts = 1
    /\ max_scenes = 1

NextForeshadowing == Plant \/ Resolve \/ Abandon

SpecForeshadowing == InitForeshadowing /\ [][NextForeshadowing]_vars

----------------------------------------------------------------------------
(* EpisodicMemoryManager                                                   *)
(* The document is its sequence of lines (the text split at "\n"); the     *)
(* empty document is the empty sequence.                                   *)

Line(k, n, c, s) == [k |-> k, n |-> n, c |-> c, s |-> s]

Header(scene, chapter) == Line("hdr", scene, chapter, "")  \* "### Scene n (Chapter c)"
TimeLine == Line("time", 0, 0, "")                          \* "**Time**: ..."
PovLine(pov) == Line("pov", 0, 0, pov)                      \* "**POV**: ..."
EventsLine(joined) == Line("events", 0, 0, joined)          \* "**Events**: ..."
Text(s) == Line("text", 0, 0, s)
Blank == Text("")
Separator == Text("---")

RECURSIVE JoinComma(_)
\* ', '.join(xs)
JoinComma(xs) ==
    IF xs = <<>> THEN ""
    ELSE IF Len(xs) = 1 THEN xs[1]
    ELSE xs[1] \o ", " \o JoinComma(Tail(xs))

\* the document ProjectManager._copy_templates writes
TemplateDoc ==
    <<Text("# Episodic Memory"), Blank, Text("Project: Demo"), Blank,
      Text("## Recent Scenes"), Blank, Blank>>

\* the lines of new_entry
entry_lines(chapter, scene, summary, pov_character, key_events) ==
    <<Header(scene, chapter), TimeLine>>
    \o (IF pov_character # Null /\ pov_character # "" THEN <<PovLine(pov_character)>> ELSE <<>>)
    \o (IF key_events # <<>> THEN <<EventsLine(JoinComma(key_events))>> ELSE <<>>)
    \o <<Blank, Text(summary), Blank, Separator, Blank>>

\* where re.split(r'\n### Scene \d+') cuts: the header lines that follow a line break
SplitPoints(content) == {i \in 2..Len(content) : content[i].k = "hdr"}

\* the j-th smallest element of a finite set of numbers
RECURSIVE Nth(_, _)
Nth(S, j) ==
    LET m == CHOOSE x \in S : \A y \in S : x <= y
    IN  IF j = 1 THEN m ELSE Nth(S \ {m}, j - 1)

\* scenes[j] for j >= 1 (scenes[0] is the preamble): the lines from the j-th cut to
\* the next; its first line is what the cut left of the header line
Piece(content, j) ==
    LET cuts == SplitPoints(content)
        from == Nth(cuts, j)
        to == IF j < Cardinality(cuts) THEN Nth(cuts, j + 1) - 1 ELSE Len(content)
    IN  SubSeq(content, from, to)

RECURSIVE Rebuild(_, _, _, _)
\* the reconstruction loop over kept_scenes: pieces j..last, numbered from i
Rebuild(content, j, last, i) ==
    IF j > last THEN <<>>
    ELSE LET piece == Piece(content, j)
         IN  <<[piece[1] EXCEPT !.n = i]>> \o Tail(piece)
             \o Rebuild(content, j + 1, last, i + 1)

\* _trim_scenes
trim_scenes(content, limit) ==
    LET cuts == SplitPoints(content)
        nscenes == Cardinality(cuts) + 1          \* len(scenes)
    IN  IF nscenes <= limit + 1 THEN content
        ELSE LET preamble == SubSeq(content, 1, Nth(cuts, 1) - 1)
                 \* scenes[-limit:] are the pieces nscenes-limit .. nscenes-1
                 first == nscenes - limit
             IN  preamble \o Rebuild(content, first, nscenes - 1, nscenes - limit)

\* add_scene_summary: the document saved
add_scene_summary(current, limit, chapter, scene, summary, pov_character, key_events) ==
    LET new_entry == entry_lines(chapter, scene, summary, pov_character, key_events)
        updated == IF current # <<>> THEN new_entry \o current ELSE new_entry
    IN  trim_scenes(updated, limit)

Povs == {Null, "A"}
EventLists == {<<>>, <<"e1", "e2">>}

\* the summary text of the k-th call: callers pass a different text each time
SummaryOf(k) == "summary " \o ToString(k)

AddSceneSummary ==
    /\ Len(sceneLog) < MaxSummaries
    /\ \E scene \in SceneNos, pov \in Povs, evs \in EventLists :
         LET summary == SummaryOf(Len(sceneLog) + 1)
         IN  /\ episodic' = add_scene_summary(episodic, max_scenes, 1, scene,
                                                summary, pov, evs)
             /\ sceneLog' = Append(sceneLog, [scene |-> scene, chapter |-> 1,
                                               pov |-> pov, events |-> evs,
                                               summary |-> summary])
             /\ lastCall' = [op |-> "add_scene_summary", id |-> Null]
    /\ UNCHANGED <<libVars, factsVars, fsVars, max_scenes, pipelineVars>>

InitEpisodic ==
    /\ InitPipeline
    /\ NoSession /\ NoRetriever /\ NoRouter /\ NoTracker /\ NoLogger /\ NoHealth /\ NoStream /\ Parsable /\ NoSessionFile
    /\ enable_revision = TRUE
    /\ facts = <<>> /\ archive = <<>> /\ factLog = <<>>
    /\ foreshadowings = <<>>
    /\ lastCall = NoCall
    /\ sceneLog = <<>>
    /\ max_facts = 1
    /\ max_scenes \in 1..MaxScenesLimit
    /\ episodic \in {<<>>, TemplateDoc}

NextEpisodic == AddSceneSummary

SpecEpisodic == InitEpisodic /\ [][NextEpisodic]_vars

----------------------------------------------------------------------------
(* SwarmPipeline.generate_scene and CommitterAgent.commit                  *)

DefaultMaxFacts == 50    \* FactsManager(project_path): max_facts
DefaultMaxScenes == 5    \* EpisodicMemoryManager(project_path): max_scenes

SpecRawWithDirectives ==
    [kind |-> "raw", narrative |-> FALSE, constraints |-> FALSE, pov |-> Null,
     continuity |-> TRUE, to_resolve |-> <<"fs001">>, to_plant |-> <<"c1">>,
     to_plant_null |-> FALSE]

\* what json.loads of the Director's text yields: unparsable text degrades to
\* {"raw": text}; a SceneSpec has a continuity and a constraints section and, when
\* complete, a narrative section
SpecRaw ==
    [kind |-> "raw", narrative |-> FALSE, constraints |-> FALSE, pov |-> Null,
     continuity |-> FALSE, to_resolve |-> <<>>, to_plant |-> <<>>,
     to_plant_null |-> FALSE]

SpecContinuity ==
    [kind |-> "json", narrative |-> FALSE, constraints |-> TRUE, pov |-> "A",
     continuity |-> TRUE, to_resolve |-> <<"fs001">>, to_plant |-> <<"c1">>,
     to_plant_null |-> FALSE]

SpecFull == [SpecContinuity EXCEPT !.narrative = TRUE]

\* a SceneSpec whose continuity section reads "foreshadowing_to_plant": null
SpecNullPlant == [SpecContinuity EXCEPT !.to_plant = <<>>, !.to_plant_null = TRUE]

SceneSpecs == {SpecRaw, SpecContinuity, SpecFull, SpecNullPlant}

\* narrative.key_events of a SceneSpec
KeyEvents(spec) == IF spec.narrative THEN <<"e1", "e2">> ELSE <<>>

\* the Writer's outputs
Texts == {"t1", "t2"}

\* the Editor's output on success
Edited(text) == text \o " (edited)"

\* SimpleSummarizer.summarize: a text derived from the scene text
Summarize(text) == "summary of " \o text

\* extract_facts_from_text: the declarative sentences of the text ("t1" has none)
ExtractFacts(text) == IF text \in {"t2", Edited("t2")} THEN <<"c1", "c2">> ELSE <<>>

Issue(category, severity) == [category |-> category, severity |-> severity]

\* the Checker's provider: generate raises, or returns a JSON array whose
\* elements Issue(**issue_data) accepts (valid) or rejects with TypeError
ProviderError == [raises |-> TRUE, items |-> <<>>]
Reply(items) == [raises |-> FALSE, items |-> items]
Item(category, severity) == [valid |-> TRUE, issue |-> Issue(category, severity)]
BadItem == [valid |-> FALSE, issue |-> Issue("", "")]

RECURSIVE ParsedIssues(_)
\* the loop over issues_data: the issues appended before an element is rejected
ParsedIssues(items) ==
    IF items = <<>> \/ ~Head(items).valid THEN <<>>
    ELSE <<Head(items).issue>> \o ParsedIssues(Tail(items))

\* _check_with_llm: the except clause swallows whatever generate, json.loads or
\* Issue(**issue_data) raises and the issues appended so far are returned
check_with_llm(reply) ==
    [issues |-> IF reply.raises THEN <<>> ELSE ParsedIssues(reply.items),
     failed |-> reply.raises \/ \E i \in 1..Len(reply.items) : ~reply.items[i].valid]

\* ContinuityCheckerAgent.check: the rule-based issues, then the LLM audit's
check(rule_issues, reply) == rule_issues \o check_with_llm(reply).issues

\* the Checker's inputs: what the rule-based tiers find in the text (errors only)
\* and what the provider does
CheckerCases ==
    {[rule |-> <<>>, reply |-> Reply(<<>>)],
     [rule |-> <<>>, reply |-> Reply(<<Item("world", "info")>>)],
     [rule |-> <<>>, reply |-> ProviderError],
     [rule |-> <<Issue("character", "error")>>, reply |-> ProviderError],
     [rule |-> <<Issue("fact", "error")>>, reply |-> Reply(<<Item("pov", "info")>>)],
     [rule |-> <<>>, reply |-> Reply(<<Item("world", "warning"), Item("pov", "info")>>)],
     [rule |-> <<>>, reply |-> Reply(<<Item("world", "warning"), BadItem>>)]}

\* the issue lists ContinuityCheckerAgent.check returns
CheckerResults == {check(c.rule, c.reply) : c \in CheckerCases}

\* issue_dicts: the issues of severity error or warning
IssueDicts(issues) == SelectSeq(issues, LAMBDA i : i.severity \in {"error", "warning"})

NeedsEditAnyIssue(issues, enable) == issues # <<>> /\ enable

\* the two conditions guarding the Editor call
NeedsEdit(issues, enable) ==
    /\ issues # <<>> /\ enable /\ Len(issues) > 0
    /\ IssueDicts(issues) # <<>>

NextStageSkipSave(stage, edit) ==
    CASE stage = "director" -> "writer"
      [] stage = "writer" -> "checker"
      [] stage = "checker" -> IF edit THEN "editor" ELSE "commit"
      [] stage = "editor" -> "commit"
      [] stage = "commit" -> "commit_facts"
      [] stage = "commit_facts" -> "commit_foreshadowing"
      [] stage = "commit_foreshadowing" -> "advance"
      [] stage = "persist" -> "advance"
      [] stage = "advance" -> "done"

NextStageChapterFirst(stage, edit) ==
    CASE stage = "director" -> "writer"
      [] stage = "writer" -> "checker"
      [] stage = "checker" -> IF edit THEN "editor" ELSE "persist"
      [] stage = "editor" -> "persist"
      [] stage = "persist" -> "commit"
      [] stage = "commit" -> "commit_facts"
      [] stage = "commit_facts" -> "commit_foreshadowing"
      [] stage = "commit_foreshadowing" -> "advance"
      [] stage = "advance" -> "done"

\* the statement generate_scene goes to when a stage returns
NextStage(stage, edit) ==
    CASE stage = "director" -> "writer"
      [] stage = "writer" -> "checker"
      [] stage = "checker" -> IF edit THEN "editor" ELSE "commit"
      [] stage = "editor" -> "commit"
      [] stage = "commit" -> "commit_facts"
      [] stage = "commit_facts" -> "commit_foreshadowing"
      [] stage = "commit_foreshadowing" -> "persist"
      [] stage = "persist" -> "advance"
      [] stage = "advance" -> "done"

RaisedCommitSwallowed(stage) ==
    IF stage \in {"commit", "commit_foreshadowing"}
    THEN NextStage(stage, FALSE)
    ELSE "aborted"

RaisedSwallowed(stage) == NextStage(stage, FALSE)

\* where generate_scene goes when a stage raises: no stage call is inside a try,
\* so the exception leaves generate_scene
Raised(stage) == "aborted"

\* generate_scene is called: chapter given, scene given or the session's
GenerateScene ==
    /\ pc \in {"idle", "done", "aborted"}
    /\ nruns < MaxRuns
    /\ \E chapter \in Chapters, scene \in {current_scene, 1} :
         run' = [NoRun EXCEPT !.chapter = chapter, !.scene = scene,
                              !.before = Snapshot]
    /\ stages' = <<>>
    /\ nruns' = nruns + 1
    /\ pc' = "director"
    /\ UNCHANGED <<libVars, factsVars, fsVars, episodicVars, lastCall,
                   enable_revision, run_log, current_scene, chapters>>

\* Session.log_turn: an AgentTurn (agent, operation, data, duration; it has no
\* status field) is appended to the session's runs file
log_turn(log, agent, operation) ==
    Append(log, [agent |-> agent, operation |-> operation])

\* Stage 1: design_scene raises, or logs its turn and returns text that json.loads
\* parses or not
Director ==
    /\ pc = "director"
    /\ stages' = Append(stages, "director")
    /\ \/ /\ pc' = Raised("director")
          /\ run' = [run EXCEPT !.error = "director"]
          /\ UNCHANGED run_log
       \/ /\ \E spec \in SceneSpecs : run' = [run EXCEPT !.scenespec = spec]
          /\ run_log' = log_turn(run_log, "director", "design_scene")
          /\ pc' = NextStage("director", FALSE)
    /\ UNCHANGED <<libVars, factsVars, fsVars, episodicVars, lastCall,
                   enable_revision, current_scene, chapters, nruns>>

\* Stage 2: writer.generate raises, or returns the prose
Writer ==
    /\ pc = "writer"
    /\ stages' = Append(stages, "writer")
    /\ \/ /\ pc' = Raised("writer")
          /\ run' = [run EXCEPT !.error = "writer"]
       \/ /\ \E text \in Texts :
                run' = [run EXCEPT !.text = text, !.writer_text = text]
          /\ pc' = NextStage("writer", FALSE)
    /\ UNCHANGED <<libVars, factsVars, fsVars, episodicVars, lastCall,
                   enable_revision, run_log, current_scene, chapters, nruns>>

\* Stage 3: checker.check returns its issues
Checker ==
    /\ pc = "checker"
    /\ stages' = Append(stages, "checker")
    /\ \E c \in CheckerCases :
         LET issues == check(c.rule, c.reply)
         IN  /\ run' = [run EXCEPT !.issues = issues,
                                   !.audit = [rule |-> c.rule,
                                              failed |-> check_with_llm(c.reply).failed]]
             /\ pc' = NextStage("checker", NeedsEdit(issues, enable_revision))
    /\ UNCHANGED <<libVars, factsVars, fsVars, episodicVars, lastCall,
                   enable_revision, run_log, current_scene, chapters, nruns>>

\* StyleEditorAgent.edit: the cleaned output of the provider, or the text it was
\* given when the provider call or the cleaning raises
edit(text, fails) == IF fails THEN text ELSE Edited(text)

\* Stage 4: editor.edit returns the edited text, or the text it was given when
\* its provider fails
Editor ==
    /\ pc = "editor"
    /\ stages' = Append(stages, "editor")
    /\ \E fails \in BOOLEAN :
         run' = [run EXCEPT !.text = edit(run.text, fails), !.revision_made = TRUE,
                            !.edit_failed = fails]
    /\ pc' = NextStage("editor", FALSE)
    /\ UNCHANGED <<libVars, factsVars, fsVars, episodicVars, lastCall,
                   enable_revision, run_log, current_scene, chapters, nruns>>

\* Stage 5, commit part 1: the key_events lookup (scenespec["narrary"] raises
\* KeyError whenever the SceneSpec has a narrative section), then the recap block
CommitEpisodic ==
    /\ pc = "commit"
    /\ stages' = Append(stages, "committer")
    /\ IF run.scenespec.narrative
       THEN /\ pc' = Raised("commit")
            /\ run' = [run EXCEPT !.error = "committer"]
            /\ UNCHANGED episodicVars
       ELSE LET summary == Summarize(run.text)
                pov == IF run.scenespec.constraints THEN run.scenespec.pov ELSE Null
            IN  /\ episodic' = add_scene_summary(episodic, max_scenes, run.chapter,
                                                  run.scene, summary, pov, <<>>)
                /\ sceneLog' = Append(sceneLog,
                                      [scene |-> run.scene, chapter |-> run.chapter,
                                       pov |-> pov, events |-> <<>>,
                                       summary |-> summary])
                /\ run' = [run EXCEPT !.report.episodic_updated = TRUE]
                /\ pc' = NextStage("commit", FALSE)
                /\ UNCHANGED max_scenes
    /\ UNCHANGED <<libVars, factsVars, fsVars, lastCall,
                   enable_revision, run_log, current_scene, chapters, nruns>>

RECURSIVE AddFacts(_, _, _)
\* the loop over the extracted facts: st is [facts, archive, log, ids]
AddFacts(st, contents, source) ==
    IF contents = <<>> THEN st
    ELSE LET r == add_fact(st.facts, st.archive, max_facts, Head(contents), source)
         IN  AddFacts([facts |-> r.facts, archive |-> r.archive,
                       log |-> Append(st.log, r.fact), ids |-> Append(st.ids, r.id)],
                      Tail(contents), source)

\* commit part 2: extract facts from the text and add each
CommitFacts ==
    /\ pc = "commit_facts"
    /\ LET st == AddFacts([facts |-> facts, archive |-> archive, log |-> factLog,
                           ids |-> <<>>],
                          ExtractFacts(run.text), ChapterId(run.chapter))
       IN  /\ facts' = st.facts
           /\ archive' = st.archive
           /\ factLog' = st.log
           /\ run' = [run EXCEPT !.report.facts_added = st.ids]
    /\ pc' = NextStage("commit_facts", FALSE)
    /\ UNCHANGED <<libVars, max_facts, fsVars, episodicVars, lastCall,
                   enable_revision, run_log, current_scene, chapters, stages, nruns>>

RECURSIVE ResolveAll(_, _, _)
\* the loop over continuity.foreshadowing_to_resolve
ResolveAll(fss, ids, chapter) ==
    IF ids = <<>> THEN fss
    ELSE ResolveAll(resolve_foreshadowing(fss, Head(ids), chapter, Null),
                    Tail(ids), chapter)

RECURSIVE PlantAll(_, _, _)
\* the loop over continuity.foreshadowing_to_plant: st is [fss, ids]
PlantAll(st, contents, chapter) ==
    IF contents = <<>> THEN st
    ELSE PlantAll([fss |-> plant_foreshadowing(st.fss, Head(contents), chapter),
                   ids |-> Append(st.ids, plant_id(st.fss))],
                  Tail(contents), chapter)

\* commit part 3: resolve, then plant (iterating a null foreshadowing_to_plant
\* raises TypeError), and return the report
CommitForeshadowing ==
    /\ pc = "commit_foreshadowing"
    /\ IF run.scenespec.continuity
       THEN LET chapter_id == ChapterId(run.chapter)
                resolved == ResolveAll(foreshadowings, run.scenespec.to_resolve,
                                       chapter_id)
                planted == PlantAll([fss |-> resolved, ids |-> <<>>],
                                    run.scenespec.to_plant, chapter_id)
            IN  IF run.scenespec.to_plant_null
                THEN /\ foreshadowings' = resolved
                     /\ run' = [run EXCEPT
                                   !.report.foreshadowing_resolved =
                                       run.scenespec.to_resolve,
                                   !.error = "committer"]
                     /\ pc' = Raised("commit_foreshadowing")
                     /\ UNCHANGED stages
                ELSE /\ foreshadowings' = planted.fss
                     /\ run' = [run EXCEPT
                                   !.report.foreshadowing_resolved =
                                       run.scenespec.to_resolve,
                                   !.report.foreshadowing_planted = planted.ids]
                     /\ pc' = NextStage("commit_foreshadowing", FALSE)
                     /\ stages' = Append(stages, "commit_report")
       ELSE /\ pc' = NextStage("commit_foreshadowing", FALSE)
            /\ stages' = Append(stages, "commit_report")
            /\ UNCHANGED <<foreshadowings, run>>
    /\ UNCHANGED <<libVars, factsVars, episodicVars, lastCall,
                   enable_revision, run_log, current_scene, chapters, nruns>>

save_chapter_appending(chs, chapter_number, content) ==
    [chs EXCEPT ![chapter_number] = IF @ = Null THEN content ELSE @ \o content]

\* ChapterManager.save_chapter: path.write_text replaces what the file held
save_chapter(chs, chapter_number, content) ==
    [chs EXCEPT ![chapter_number] = content]

\* ChapterManager.save_chapter
SaveChapter ==
    /\ pc = "persist"
    /\ stages' = Append(stages, "save_chapter")
    /\ chapters' = save_chapter(chapters, run.chapter, run.text)
    /\ pc' = NextStage("persist", FALSE)
    /\ UNCHANGED <<libVars, factsVars, fsVars, episodicVars, lastCall,
                   enable_revision, run_log, current_scene, run, nruns>>

\* self.session.context.current_scene = scene + 1, and the return
AdvanceScene ==
    /\ pc = "advance"
    /\ stages' = Append(stages, "advance")
    /\ current_scene' = run.scene + 1
    /\ pc' = NextStage("advance", FALSE)
    /\ UNCHANGED <<libVars, factsVars, fsVars, episodicVars, lastCall,
                   enable_revision, run_log, chapters, run, nruns>>

\* a new project made by ProjectManager.create from its templates (the Writer
\* stage needs the bible.md they provide), a new session, the managers the
\* agents construct
InitSwarm ==
    /\ InitPipeline
    /\ NoSession /\ NoRetriever /\ NoRouter /\ NoTracker /\ NoLogger /\ NoHealth /\ NoStream /\ Parsable /\ NoSessionFile
    /\ enable_revision \in BOOLEAN
    /\ max_facts = DefaultMaxFacts
    /\ max_scenes = DefaultMaxScenes
    /\ facts = <<>> /\ archive = <<>> /\ factLog = <<>>
    /\ foreshadowings = <<>>
    /\ lastCall = NoCall
    /\ episodic = TemplateDoc
    /\ sceneLog = <<>>

NextSwarm ==
    \/ GenerateScene
    \/ Director
    \/ Writer
    \/ Checker
    \/ Editor
    \/ CommitEpisodic
    \/ CommitFacts
    \/ CommitForeshadowing
    \/ SaveChapter
    \/ AdvanceScene

SpecSwarm == InitSwarm /\ [][NextSwarm]_vars

----------------------------------------------------------------------------
(* The session's JSON file: Session._save_session, _load_session and the   *)
(* pipeline's runs                                                          *)

MaxSceneNo == 3         \* increment_scene is called while current_scene is below it

\* Session._save_session: the context's to_dict, of which current_scene is kept
\* here, replaces the file's content
_save_session(scene) == [exists |-> TRUE, current_scene |-> scene]

\* Session._load_session: the context in the file, a new context (current_scene
\* = 1) when there is no file
_load_session(file) ==
    IF file.exists THEN [current_scene |-> file.current_scene]
    ELSE [current_scene |-> 1]

\* Session.increment_scene, called between two generate_scene calls
IncrementScene ==
    /\ pc \in {"idle", "done", "aborted"}
    /\ current_scene < MaxSceneNo
    /\ current_scene' = current_scene + 1
    /\ session_file' = _save_session(current_scene + 1)
    /\ UNCHANGED <<promptVars, ragVars, routerVars, costVars, loggerVars,
                   healthVars, streamVars, fileVars>>
    /\ UNCHANGED <<factsVars, fsVars, episodicVars, lastCall, pc,
                   enable_revision, run_log, chapters, run, stages, nruns>>

NextSession == NextSwarm \/ IncrementScene

SpecSession == InitSwarm /\ [][NextSession]_vars

----------------------------------------------------------------------------
(* TwoStagePipeline.generate_scene followed by save_and_commit             *)

\* generate_scene is called: chapter given, scene given or the session's
TsGenerateScene ==
    /\ pc \in {"idle", "done", "aborted"}
    /\ nruns < MaxRuns
    /\ \E chapter \in Chapters, scene \in {current_scene, 1} :
         run' = [NoRun EXCEPT !.chapter = chapter, !.scene = scene,
                              !.before = Snapshot]
    /\ stages' = <<>>
    /\ nruns' = nruns + 1
    /\ pc' = "ts_director"
    /\ UNCHANGED <<libVars, factsVars, fsVars, episodicVars, lastCall,
                   enable_revision, run_log, current_scene, chapters>>

\* Stage 1: design_scene raises, or returns text that json.loads parses or not
TsDirector ==
    /\ pc = "ts_director"
    /\ stages' = Append(stages, "director")
    /\ \/ /\ pc' = Raised("director")
          /\ run' = [run EXCEPT !.error = "director"]
          /\ UNCHANGED run_log
       \/ /\ \E spec \in SceneSpecs : run' = [run EXCEPT !.scenespec = spec]
          /\ run_log' = log_turn(run_log, "director", "design_scene")
          /\ pc' = "ts_writer"
    /\ UNCHANGED <<libVars, factsVars, fsVars, episodicVars, lastCall,
                   enable_revision, current_scene, chapters, nruns>>

\* Stage 2: writer.generate raises, or returns the prose; then the scene counter
\* is advanced and the result returned
TsWriter ==
    /\ pc = "ts_writer"
    /\ stages' = Append(stages, "writer")
    /\ \/ /\ pc' = Raised("writer")
          /\ run' = [run EXCEPT !.error = "writer"]
          /\ UNCHANGED current_scene
       \/ /\ \E text \in Texts : run' = [run EXCEPT !.text = text]
          /\ current_scene' = run.scene + 1
          /\ pc' = "ts_result"
    /\ UNCHANGED <<libVars, factsVars, fsVars, episodicVars, lastCall,
                   enable_revision, run_log, chapters, nruns>>

\* save_and_commit: the chapter file is written first
TsSaveChapter ==
    /\ pc = "ts_result"
    /\ stages' = Append(stages, "save_chapter")
    /\ chapters' = save_chapter(chapters, run.chapter, run.text)
    /\ pc' = "ts_episodic"
    /\ UNCHANGED <<libVars, factsVars, fsVars, episodicVars, lastCall,
                   enable_revision, run_log, current_scene, run, nruns>>

\* _update_memory, the recap block: chapter is always 1, no pov_character
TsUpdateEpisodic ==
    /\ pc = "ts_episodic"
    /\ LET summary == Summarize(run.text)
           key_events == KeyEvents(run.scenespec)
       IN  /\ episodic' = add_scene_summary(episodic, max_scenes, 1, run.scene,
                                             summary, Null, key_events)
           /\ sceneLog' = Append(sceneLog,
                                 [scene |-> run.scene, chapter |-> 1, pov |-> Null,
                                  events |-> key_events, summary |-> summary])
    /\ run' = [run EXCEPT !.report.episodic_updated = TRUE]
    /\ pc' = "ts_facts"
    /\ UNCHANGED <<libVars, max_scenes, factsVars, fsVars, lastCall,
                   enable_revision, run_log, current_scene, chapters, stages, nruns>>

\* _update_memory, the facts: the source is always chapter_001
TsUpdateFacts ==
    /\ pc = "ts_facts"
    /\ LET st == AddFacts([facts |-> facts, archive |-> archive, log |-> factLog,
                           ids |-> <<>>],
                          ExtractFacts(run.text), ChapterId(1))
       IN  /\ facts' = st.facts
           /\ archive' = st.archive
           /\ factLog' = st.log
           /\ run' = [run EXCEPT !.report.facts_added = st.ids]
    /\ pc' = "ts_foreshadowing"
    /\ UNCHANGED <<libVars, max_facts, fsVars, episodicVars, lastCall,
                   enable_revision, run_log, current_scene, chapters, stages, nruns>>

\* _update_memory, the foreshadowing: resolve, then plant, always with chapter_001
TsUpdateForeshadowing ==
    /\ pc = "ts_foreshadowing"
    /\ LET chapter_id == ChapterId(1)
           resolved == ResolveAll(foreshadowings, run.scenespec.to_resolve,
                                  chapter_id)
           planted == PlantAll([fss |-> resolved, ids |-> <<>>],
                               run.scenespec.to_plant, chapter_id)
       IN  IF run.scenespec.to_plant_null
           THEN /\ foreshadowings' = resolved
                /\ run' = [run EXCEPT !.error = "update_memory"]
                /\ pc' = Raised("update_memory")
                /\ UNCHANGED stages
           ELSE /\ foreshadowings' = planted.fss
                /\ pc' = "done"
                /\ stages' = Append(stages, "update_memory")
                /\ UNCHANGED run
    /\ UNCHANGED <<libVars, factsVars, episodicVars, lastCall,
                   enable_revision, run_log, current_scene, chapters, nruns>>

NextTwoStage ==
    \/ TsGenerateScene
    \/ TsDirector
    \/ TsWriter
    \/ TsSaveChapter
    \/ TsUpdateEpisodic
    \/ TsUpdateFacts
    \/ TsUpdateForeshadowing

SpecTwoStage == InitSwarm /\ [][NextTwoStage]_vars

----------------------------------------------------------------------------
(* CommitterAgent.commit called directly, twice or more                    *)

\* the arguments of the commit call in progress
CommitArgs ==
    [text |-> run.text, chapter |-> run.chapter, scene |-> run.scene,
     scenespec |-> run.scenespec]

\* commit(text, chapter, scene, scenespec) is called; lastCall keeps the
\* arguments of the commit call before it and whether that call returned
CallCommit ==
    /\ pc \in {"idle", "persist", "aborted"}
    /\ nruns < MaxRuns
    /\ \E text \in Texts, chapter \in Chapters, scene \in SceneNos,
          spec \in SceneSpecs :
         run' = [NoRun EXCEPT !.text = text, !.chapter = chapter, !.scene = scene,
                              !.scenespec = spec, !.before = Snapshot]
    /\ lastCall' = IF nruns = 0 THEN NoCall
                   ELSE [op |-> "commit", id |-> Null, args |-> CommitArgs,
                         returned |-> pc = "persist"]
    /\ stages' = <<>>
    /\ nruns' = nruns + 1
    /\ pc' = "commit"
    /\ UNCHANGED <<libVars, factsVars, fsVars, episodicVars,
                   enable_revision, run_log, current_scene, chapters>>

NextCommit ==
    \/ CallCommit
    \/ CommitEpisodic
    \/ CommitFacts
    \/ CommitForeshadowing

\* the stores of a new project, as the managers CommitterAgent constructs find them
SpecCommit == InitSwarm /\ [][NextCommit]_vars

----------------------------------------------------------------------------
(* Session.get_prompt_context and DirectorAgent._build_prompt.  A text is   *)
(* modelled by its length in characters.                                    *)

MaxKeyFacts == 11       \* Session.add_fact calls per behaviour

\* len(s[:k]) and len(s[-k:]) for a text of length n
SliceLen(n, k) == IF n < k THEN n ELSE k

RECURSIVE SumSeq(_)
SumSeq(s) == IF s = <<>> THEN 0 ELSE Head(s) + SumSeq(Tail(s))

\* len('\n'.join(lines)) for lines of the given lengths
JoinLen(lines) == IF lines = <<>> THEN 0 ELSE SumSeq(lines) + Len(lines) - 1

\* a config.yaml that sets context.budgets
ConfiguredBudgets == [bible |-> 1000, characters |-> 800, facts |-> 300,
                      recap |-> 200, icl |-> 300]

FactLens == {60}             \* the facts Session.add_fact is called with
NewContentLens == {200, 600} \* the texts update_episode_summary is called with
BibleLens == {0, 1000, 3000} \* bible.md: missing or unreadable, short, long
CharacterLens == {0, 2000}   \* the joined character cards

\* what search_for_agent returned to build_context: doc_type, and the lengths of
\* source and content of each result
Retrieved(doc_type, source, content) ==
    [doc_type |-> doc_type, source |-> source, content |-> content]

RetrievedCases ==
    {<<>>,
     <<Retrieved("bible", 8, 100)>>,
     <<Retrieved("bible", 8, 900), Retrieved("bible", 8, 300),
       Retrieved("fact", 17, 250), Retrieved("fact", 17, 250),
       Retrieved("chapter", 23, 700)>>}

\* the doc_types of the results in order of first appearance (by_type.setdefault)
RECURSIVE TypesOf(_, _)
TypesOf(rs, seen) ==
    IF rs = <<>> THEN seen
    ELSE TypesOf(Tail(rs),
                 IF InSeq(Head(rs).doc_type, seen) THEN seen
                 ELSE Append(seen, Head(rs).doc_type))

\* the lines build_context writes for one doc_type: the heading
\* f"### {doc_type.title()} References", f"- [{source}] {content[:500][:200]}..."
\* for each result of the type, and an empty line
GroupLines(rs, doc_type) ==
    LET docs == SelectSeq(rs, LAMBDA r : r.doc_type = doc_type)
    IN  <<4 + Len(doc_type) + 11>>
        \o [k \in 1..Len(docs) |->
               3 + docs[k].source + 2 + SliceLen(SliceLen(docs[k].content, 500), 200) + 3]
        \o <<0>>

RECURSIVE AllGroupLines(_, _)
AllGroupLines(rs, types) ==
    IF types = <<>> THEN <<>>
    ELSE GroupLines(rs, Head(types)) \o AllGroupLines(rs, Tail(types))

\* RAGContextBuilder.build_context: "" without results, else "## Retrieved
\* Context", an empty line and the groups, joined by newlines
build_context(rs) ==
    IF rs = <<>> THEN 0
    ELSE JoinLen(<<20, 0>> \o AllGroupLines(rs, TypesOf(rs, <<>>)))

\* Session.get_prompt_context
get_prompt_context ==
    [bible |-> SliceLen(project_docs.bible, 2000),
     characters |-> SliceLen(project_docs.characters, 1500),
     facts |-> JoinLen([k \in 1..Len(LastN(key_facts, 10)) |->
                           2 + LastN(key_facts, 10)[k]]),
     recap |-> SliceLen(episode_summary, 800)]

\* the context blocks _build_prompt puts into the prompt (0: the block is left out)
build_prompt(rs) ==
    LET ctx == get_prompt_context
    IN  [built |-> TRUE,
         retrieved |-> build_context(rs),
         bible |-> SliceLen(ctx.bible, 1500),
         characters |-> SliceLen(ctx.characters, 1200),
         facts |-> ctx.facts,
         recap |-> ctx.recap]

\* Session.add_fact
SessionAddFact ==
    /\ Len(key_facts) < MaxKeyFacts
    /\ \E f \in FactLens : key_facts' = Append(key_facts, f)
    /\ UNCHANGED <<factsVars, fsVars, episodicVars, lastCall, pipelineVars,
                   toolVars,
                   episode_summary, project_docs, budgets, prompt,
                   ragVars, routerVars, costVars>>

\* Session.update_episode_summary: "\n\n[Scene N]\n" and the first 500 characters
\* are appended, the last 1000 characters kept
UpdateEpisodeSummary ==
    /\ \E new_content \in NewContentLens :
         episode_summary' =
             SliceLen(episode_summary + 12 + SliceLen(new_content, 500), 1000)
    /\ UNCHANGED <<factsVars, fsVars, episodicVars, lastCall, pipelineVars,
                   toolVars,
                   key_facts, project_docs, budgets, prompt,
                   ragVars, routerVars, costVars>>

\* DirectorAgent._build_prompt with a session and a retriever
BuildPrompt ==
    /\ \E rs \in RetrievedCases : prompt' = build_prompt(rs)
    /\ UNCHANGED <<factsVars, fsVars, episodicVars, lastCall, pipelineVars,
                   toolVars,
                   key_facts, episode_summary, project_docs, budgets,
                   ragVars, routerVars, costVars>>

\* a new project whose stores and pipeline are not used
InitProject ==
    /\ InitStores
    /\ max_facts = DefaultMaxFacts
    /\ max_scenes = DefaultMaxScenes

\* a new session on a project with or without context.budgets in config.yaml
InitPrompt ==
    /\ InitProject
    /\ NoRetriever /\ NoRouter /\ NoTracker /\ NoLogger /\ NoHealth /\ NoStream /\ Parsable /\ NoSessionFile
    /\ key_facts = <<>>
    /\ episode_summary = 0
    /\ project_docs \in [bible : BibleLens, characters : CharacterLens]
    /\ budgets \in {DefaultBudgets, ConfiguredBudgets}
    /\ prompt = NoPrompt

NextPrompt ==
    \/ SessionAddFact
    \/ UpdateEpisodeSummary
    \/ BuildPrompt

SpecPrompt == InitPrompt /\ [][NextPrompt]_vars

----------------------------------------------------------------------------
(* SimpleEmbedding and SimpleRetriever.  A text is its sequence of          *)
(* characters; a score is the squared cosine as a fraction, which orders    *)
(* results as the cosine does because no weight is negative.                *)

MaxDocAdds == 2         \* add_document calls per behaviour

Alnum == <<"a", "b">>   \* the characters _tokenize keeps; "!" is dropped
EmptyVector == [t \in {} |-> 0]

\* round(2 * (log(n / (df + 1)) + 1)) for n documents, df of them holding the
\* token: the idf of _build_vocab in half units
IdfTable ==
    <<<<1>>,
      <<2, 1>>,
      <<3, 2, 1>>,
      <<3, 3, 2, 2>>,
      <<4, 3, 2, 2, 2>>,
      <<4, 3, 3, 2, 2, 2>>,
      <<5, 4, 3, 3, 2, 2, 2>>,
      <<5, 4, 3, 3, 3, 2, 2, 2>>,
      <<5, 4, 4, 3, 3, 3, 2, 2, 2>>>>

\* SimpleEmbedding._tokenize
tokenize(text) == SelectSeq(text, LAMBDA ch : InSeq(ch, Alnum))

Occurrences(tokens, t) == Cardinality({i \in 1..Len(tokens) : tokens[i] = t})

\* SimpleEmbedding.fit: the vocabulary (every token, far fewer than vocab_size)
\* and the idf of each of its tokens
fit(contents) ==
    LET holds(k, t) == InSeq(t, tokenize(contents[k]))
        vocab == {t \in {Alnum[i] : i \in 1..Len(Alnum)} :
                     \E k \in 1..Len(contents) : holds(k, t)}
    IN  [vocab |-> vocab,
         idf |-> [t \in vocab |->
                     IdfTable[Len(contents)]
                             [Cardinality({k \in 1..Len(contents) : holds(k, t)})]]]

\* SimpleEmbedding.embed before the L2 normalisation, which similarity applies
embed(e, text) ==
    [t \in e.vocab |-> Occurrences(tokenize(text), t) * e.idf[t]]

\* np.dot of two vectors of the same vocabulary
Dot(u, v) ==
    SumSeq([k \in 1..Len(Alnum) |->
               IF Alnum[k] \in DOMAIN u THEN u[Alnum[k]] * v[Alnum[k]] ELSE 0])

\* np.dot(query_vec, doc.embedding) of the normalised vectors, squared; a vector
\* of norm 0 stays the zero vector
similarity(q, d) ==
    IF Dot(q, q) = 0 \/ Dot(d, d) = 0 THEN [num |-> 0, den |-> 1]
    ELSE [num |-> Dot(q, d) * Dot(q, d), den |-> Dot(q, q) * Dot(d, d)]

ScoreLess(a, b) == a.num * b.den < b.num * a.den

\* list.sort(key=score, reverse=True): stable, equal scores keep their order
RECURSIVE InsertDesc(_, _)
InsertDesc(x, s) ==
    IF s = <<>> \/ ~ScoreLess(x.score, Head(s).score) THEN <<x>> \o s
    ELSE <<Head(s)>> \o InsertDesc(x, Tail(s))

RECURSIVE SortDesc(_)
SortDesc(rs) == IF rs = <<>> THEN <<>> ELSE InsertDesc(Head(rs), SortDesc(Tail(rs)))

\* s[:k] for k >= 0
FirstN(s, k) == SubSeq(s, 1, IF k < Len(s) THEN k ELSE Len(s))

Document(id, content, doc_type) ==
    [id |-> id, content |-> content, doc_type |-> doc_type,
     embedded |-> FALSE, embedding |-> EmptyVector]

\* build: the embedder fitted on all contents, every document embedded by it
BuiltEmbedder(docs) == fit([k \in 1..Len(docs) |-> docs[k].content])

BuiltDocuments(docs) ==
    [k \in 1..Len(docs) |->
        [docs[k] EXCEPT !.embedded = TRUE,
                        !.embedding = embed(BuiltEmbedder(docs), docs[k].content)]]

\* the documents of a project indexed before: four bible sections, two facts
\* and a character card
SavedDocs ==
    <<Document("d1", <<"a">>, "bible"),
      Document("d2", <<"a", "a", "b">>, "bible"),
      Document("d3", <<"b">>, "bible"),
      Document("d4", <<"a", "b", "b">>, "bible"),
      Document("d5", <<"a", "b">>, "fact"),
      Document("d6", <<"b", "!">>, "fact"),
      Document("d7", <<"a", "!">>, "character")>>

\* _save: vocab, idf and the documents with their embeddings
SavedIndex(e, docs) == [exists |-> TRUE, embedder |-> e, documents |-> docs]

NoIndex == [exists |-> FALSE, embedder |-> [vocab |-> {}, idf |-> EmptyVector],
            documents |-> <<>>]

\* the documents callers add: new ones, two of them with the same content, one
\* without a character _tokenize keeps, and ones whose id is in SavedDocs
Corpus ==
    {Document("d9", <<"a", "b">>, "bible"),
     Document("d8", <<"a", "b">>, "bible"),
     Document("d1", <<"!">>, "bible"),
     Document("d7", <<"a">>, "character"),
     Document("d6", <<"b", "b", "!">>, "fact")}

Queries == {<<"a">>, <<"!">>}
TopKs == {2, 5}
DocTypes == {Null, "bible", "fact"}

\* self.documents[doc_id] = doc: a known id keeps its place in the dict
put(docs, doc) ==
    IF \E i \in 1..Len(docs) : docs[i].id = doc.id
    THEN [i \in 1..Len(docs) |-> IF docs[i].id = doc.id THEN doc ELSE docs[i]]
    ELSE Append(docs, doc)

add_document_keeps_fitted(was_fitted) == was_fitted

\* add_document: self._fitted = False
add_document_fitted(was_fitted) == FALSE

AddDocument ==
    /\ ragCall.adds < MaxDocAdds
    /\ \E doc \in Corpus :
         /\ documents' = put(documents, doc)
         /\ ragCall' = [op |-> "add_document", stale |-> TRUE,
                        adds |-> ragCall.adds + 1, query |-> <<>>, top_k |-> 0,
                        doc_type |-> Null]
    /\ fitted' = add_document_fitted(fitted)
    /\ UNCHANGED <<factsVars, fsVars, episodicVars, lastCall, pipelineVars,
                   toolVars,
                   promptVars, embedder, index_file, results,
                   routerVars, costVars>>

\* build: nothing without documents; else fit, embed, _fitted = True and _save
Build ==
    /\ IF documents = <<>>
       THEN UNCHANGED <<documents, embedder, fitted, index_file>>
       ELSE /\ embedder' = BuiltEmbedder(documents)
            /\ documents' = BuiltDocuments(documents)
            /\ fitted' = TRUE
            /\ index_file' = SavedIndex(BuiltEmbedder(documents),
                                        BuiltDocuments(documents))
    /\ ragCall' = [op |-> "build", stale |-> ragCall.stale /\ documents = <<>>,
                   adds |-> ragCall.adds, query |-> <<>>, top_k |-> 0,
                   doc_type |-> Null]
    /\ UNCHANGED <<factsVars, fsVars, episodicVars, lastCall, pipelineVars,
                   toolVars,
                   promptVars, results, routerVars, costVars>>

\* SimpleRetriever.search
search(query, top_k, doc_type) ==
    IF ~fitted \/ documents = <<>> THEN <<>>
    ELSE LET query_vec == embed(embedder, query)
             docs == SelectSeq(documents,
                               LAMBDA d : /\ doc_type = Null \/ d.doc_type = doc_type
                                          /\ d.embedded)
             scored == [k \in 1..Len(docs) |->
                           [id |-> docs[k].id, doc_type |-> docs[k].doc_type,
                            score |-> similarity(query_vec, docs[k].embedding)]]
             top == FirstN(SortDesc(scored), top_k)
         IN  [k \in 1..Len(top) |->
                 [id |-> top[k].id, doc_type |-> top[k].doc_type,
                  score |-> top[k].score, rank |-> k]]

Search ==
    /\ \E query \in Queries, top_k \in TopKs, doc_type \in DocTypes :
         /\ results' = search(query, top_k, doc_type)
         /\ ragCall' = [op |-> "search", stale |-> ragCall.stale,
                        adds |-> ragCall.adds, query |-> query, top_k |-> top_k,
                        doc_type |-> doc_type]
    /\ UNCHANGED <<factsVars, fsVars, episodicVars, lastCall, pipelineVars,
                   toolVars,
                   promptVars, documents, embedder, fitted, index_file,
                   routerVars, costVars>>

type_priority_with_character(agent_type) == <<"bible", "character", "fact">>

\* the document types search_for_agent searches for an agent type
type_priority(agent_type) ==
    CASE agent_type = "director" -> <<"bible", "fact", "foreshadowing", "chapter">>
      [] agent_type = "writer" -> <<"bible", "character", "fact", "chapter">>
      [] agent_type = "checker" -> <<"fact", "character", "bible">>
      [] OTHER -> <<"bible", "character", "fact">>

RECURSIVE SearchEach(_, _)
SearchEach(query, types) ==
    IF types = <<>> THEN <<>>
    ELSE search(query, 3, Head(types)) \o SearchEach(query, Tail(types))

\* search_for_agent: three results per type, sorted again, the first five
search_for_agent(query, agent_type) ==
    FirstN(SortDesc(SearchEach(query, type_priority(agent_type))), 5)

SearchForAgent ==
    /\ \E query \in Queries, agent_type \in Roles :
         /\ results' = search_for_agent(query, agent_type)
         /\ ragCall' = [op |-> "search_for_agent", stale |-> ragCall.stale,
                        adds |-> ragCall.adds, query |-> query, top_k |-> 5,
                        doc_type |-> agent_type]
    /\ UNCHANGED <<factsVars, fsVars, episodicVars, lastCall, pipelineVars,
                   toolVars,
                   promptVars, documents, embedder, fitted, index_file,
                   routerVars, costVars>>

\* a new SimpleRetriever on the project: _load reads the index file, if any
Construct ==
    /\ documents' = index_file.documents
    /\ embedder' = index_file.embedder
    /\ fitted' = index_file.exists
    /\ ragCall' = [op |-> "load", stale |-> FALSE, adds |-> ragCall.adds,
                   query |-> <<>>, top_k |-> 0, doc_type |-> Null]
    /\ UNCHANGED <<factsVars, fsVars, episodicVars, lastCall, pipelineVars,
                   toolVars,
                   promptVars, index_file, results, routerVars, costVars>>

\* a retriever constructed on a project with no index file, or with the one a
\* build over SavedDocs saved
InitRetriever ==
    /\ InitProject
    /\ NoSession /\ NoRouter /\ NoTracker /\ NoLogger /\ NoHealth /\ NoStream /\ Parsable /\ NoSessionFile
    /\ index_file \in {NoIndex,
                       SavedIndex(BuiltEmbedder(SavedDocs), BuiltDocuments(SavedDocs))}
    /\ documents = index_file.documents
    /\ embedder = index_file.embedder
    /\ fitted = index_file.exists
    /\ results = <<>>
    /\ ragCall = [op |-> "load", stale |-> FALSE, adds |-> 0, query |-> <<>>,
                  top_k |-> 0, doc_type |-> Null]

NextRetriever ==
    \/ AddDocument
    \/ Build
    \/ Search
    \/ SearchForAgent
    \/ Construct

SpecRetriever == InitRetriever /\ [][NextRetriever]_vars

----------------------------------------------------------------------------
(* ProviderRouter.get_provider.  A provider instance is the number of the   *)
(* ProviderFactory.create call that made it.                                *)

MaxGets == 4            \* get_provider calls per behaviour

\* config.provider: every role routed, to a provider of a known type, to one
\* whose constructor needs an API key, and to a name that is not in available;
\* or only the director routed and the others left to the default
ProviderConfigs ==
    {[default |-> "local_ollama",
      routing |-> [director |-> "local_ollama", writer |-> "openai",
                   checker |-> "missing"],
      available |-> [local_ollama |-> "ollama", openai |-> "openai"]],
     [default |-> "local_ollama",
      routing |-> [director |-> "openai"],
      available |-> [local_ollama |-> "ollama", openai |-> "openai"]]}

\* self.routing.get(agent_type, self.default_provider)
provider_name(agent_type) ==
    IF agent_type \in DOMAIN provider_config.routing
    THEN provider_config.routing[agent_type]
    ELSE provider_config.default

\* what ProviderFactory.create can do for a provider type: the ollama provider
\* is constructed; the openai constructor raises ValueError without an API key
create_outcomes(provider_type) ==
    IF provider_type = "openai" THEN {"returned", "raised"} ELSE {"returned"}

in_cache_never(agent_type) == FALSE

\* agent_type in self._providers
in_cache(agent_type) == providers[agent_type] # 0

\* the number the next instance gets
NextInstance ==
    1 + SumSeq([k \in 1..3 |->
                   factory[(<<"director", "writer", "checker">>)[k]].calls])

GetProvider ==
    /\ routerCall.calls < MaxGets
    /\ \E agent_type \in Roles :
        LET name == provider_name(agent_type)
            call(outcome, instance, created) ==
                [role |-> agent_type, outcome |-> outcome, instance |-> instance,
                 created |-> created, before |-> providers,
                 calls |-> routerCall.calls + 1]
        IN  IF in_cache(agent_type)
            THEN /\ routerCall' = call("returned", providers[agent_type], FALSE)
                 /\ UNCHANGED <<providers, factory>>
            ELSE IF name \notin DOMAIN provider_config.available
            THEN /\ routerCall' = call("raised", 0, FALSE)
                 /\ UNCHANGED <<providers, factory>>
            ELSE \E outcome \in create_outcomes(provider_config.available[name]) :
                   IF outcome = "returned"
                   THEN /\ providers' = [providers EXCEPT ![agent_type] = NextInstance]
                        /\ factory' = [factory EXCEPT ![agent_type].calls = @ + 1,
                                                      ![agent_type].returns = @ + 1]
                        /\ routerCall' = call("returned", NextInstance, TRUE)
                   ELSE /\ factory' = [factory EXCEPT ![agent_type].calls = @ + 1]
                        /\ routerCall' = call("raised", 0, TRUE)
                        /\ UNCHANGED providers
    /\ UNCHANGED <<factsVars, fsVars, episodicVars, lastCall, pipelineVars,
                   toolVars,
                   promptVars, ragVars, provider_config, costVars>>

\* a new ProviderRouter: the config loaded, nothing cached
InitRouter ==
    /\ InitProject
    /\ NoSession /\ NoRetriever /\ NoTracker /\ NoLogger /\ NoHealth /\ NoStream /\ Parsable /\ NoSessionFile
    /\ provider_config \in ProviderConfigs
    /\ providers = [r \in Roles |-> 0]
    /\ factory = [r \in Roles |-> [calls |-> 0, returns |-> 0]]
    /\ routerCall = [role |-> Null, outcome |-> "none", calls |-> 0]

NextRouter == GetProvider

SpecRouter == InitRouter /\ [][NextRouter]_vars

----------------------------------------------------------------------------
(* CostTracker.log_usage and get_summary.  A cost is a whole number of      *)
(* 0.00001 USD, so that round(total_cost, 4) is rounding to a multiple of   *)
(* 10; the costs drawn give no sum that ends in 5.                          *)

MaxLogs == 3            \* log_usage calls per behaviour

Agents == {"director", "writer"}

ProviderNames == {"local_ollama", "openai"}

\* cost: None, 0.00004 USD or 0.05 USD
Costs == {[priced |-> FALSE, usd |-> 0], [priced |-> TRUE, usd |-> 4],
          [priced |-> TRUE, usd |-> 5000]}

\* (input_tokens, output_tokens)
TokenCounts == {<<100, 50>>}

\* e.get("cost_usd", 0) or 0
cost_usd(e) == IF e.cost.priced THEN e.cost.usd ELSE 0

round4_not(x) == x

\* round(x, 4)
round4(x) == ((x + 5) \div 10) * 10

\* the loop that fills by_agent (key "agent") or by_provider (key "provider")
breakdown(log, key) ==
    [k \in {log[i][key] : i \in DOMAIN log} |->
        LET mine == SelectSeq(log, LAMBDA e : e[key] = k)
        IN  [requests |-> Len(mine),
             tokens |-> SumSeq([i \in DOMAIN mine |-> mine[i].total_tokens]),
             cost |-> SumSeq([i \in DOMAIN mine |-> cost_usd(mine[i])])]]

get_summary(log) ==
    IF log = <<>>
    THEN [taken |-> TRUE, log |-> log, total_requests |-> 0, total_cost |-> 0,
          total_tokens |-> 0, broken_down |-> FALSE,
          by_agent |-> <<>>, by_provider |-> <<>>]
    ELSE [taken |-> TRUE, log |-> log,
          total_requests |-> Len(log),
          total_cost |-> round4(SumSeq([i \in DOMAIN log |-> cost_usd(log[i])])),
          total_tokens |-> SumSeq([i \in DOMAIN log |-> log[i].total_tokens]),
          broken_down |-> TRUE,
          by_agent |-> breakdown(log, "agent"),
          by_provider |-> breakdown(log, "provider")]

LogUsage ==
    /\ Len(usage_log) < MaxLogs
    /\ \E agent \in Agents, provider \in ProviderNames, cost \in Costs,
          tokens \in TokenCounts :
        usage_log' = Append(usage_log,
                            [agent |-> agent, provider |-> provider,
                             input_tokens |-> tokens[1],
                             output_tokens |-> tokens[2],
                             total_tokens |-> tokens[1] + tokens[2],
                             cost |-> cost])
    /\ UNCHANGED <<factsVars, fsVars, episodicVars, lastCall, pipelineVars,
                   toolVars,
                   promptVars, ragVars, routerVars, last_summary>>

GetSummary ==
    /\ last_summary' = get_summary(usage_log)
    /\ UNCHANGED <<factsVars, fsVars, episodicVars, lastCall, pipelineVars,
                   toolVars,
                   promptVars, ragVars, routerVars, usage_log>>

\* a new CostTracker: an empty usage_log
InitTracker ==
    /\ InitProject
    /\ NoSession /\ NoRetriever /\ NoRouter /\ NoTracker /\ NoLogger /\ NoHealth /\ NoStream /\ Parsable /\ NoSessionFile

NextTracker == LogUsage \/ GetSummary

SpecTracker == InitTracker /\ [][NextTracker]_vars

----------------------------------------------------------------------------
(* ExecutionLogger.  An entry is its call number and whether json.dumps     *)
(* can encode its metrics and metadata; a line of the run file is the       *)
(* encoded entry.                                                           *)

MaxLogCalls == 11       \* ExecutionLogger.log calls per behaviour
MaxRaises == 2          \* ExecutionLogger calls that raise, per behaviour

buffer_size == 10       \* self.buffer_size

\* json.dumps(entry, ensure_ascii=False) + '\n'
JsonLine(entry) == [json |-> entry.id]

\* the entries of the buffer that are written before json.dumps raises
Writable(buf) ==
    LET bad == {i \in DOMAIN buf : ~buf[i].serialisable}
    IN  IF bad = {} THEN buf
        ELSE SubSeq(buf, 1, (CHOOSE i \in bad : \A j \in bad : i <= j) - 1)

\* self.buffer = [], reached when every entry was written
flush_clears(buf) == <<>>

\* flush: [file, buffer, returned] after the call
flush(file, buf) ==
    IF buf = <<>> THEN [file |-> file, buffer |-> buf, returned |-> TRUE]
    ELSE LET written == Writable(buf)
         IN  [file |-> file \o [i \in DOMAIN written |-> JsonLine(written[i])],
              buffer |-> IF written = buf THEN flush_clears(buf) ELSE buf,
              returned |-> written = buf]

\* the bookkeeping of one call: what was called, whether it returned, the file
\* before the call
Called(op, after) ==
    [op |-> op, returned |-> after.returned, before |-> log_file,
     raises |-> logCall.raises + (IF after.returned THEN 0 ELSE 1)]

Log ==
    /\ Len(logged) < MaxLogCalls
    /\ logCall.raises < MaxRaises
    /\ \E serialisable \in BOOLEAN :
        LET entry == [id |-> Len(logged) + 1, serialisable |-> serialisable]
            after == IF Len(buffer) + 1 >= buffer_size
                     THEN flush(log_file, Append(buffer, entry))
                     ELSE [file |-> log_file, buffer |-> Append(buffer, entry),
                           returned |-> TRUE]
        IN  /\ logged' = Append(logged, entry)
            /\ log_file' = after.file
            /\ buffer' = after.buffer
            /\ logCall' = Called("log", after)
    /\ UNCHANGED <<factsVars, fsVars, episodicVars, lastCall, pipelineVars,
                   promptVars, ragVars, routerVars, costVars, healthVars, streamVars, fileVars, sessionFileVars>>

\* flush, close and get_stats (which flushes, then reads the file)
Flush ==
    /\ logCall.raises < MaxRaises
    /\ \E op \in {"flush", "close", "get_stats"} :
        LET after == flush(log_file, buffer)
        IN  /\ log_file' = after.file
            /\ buffer' = after.buffer
            /\ logCall' = Called(op, after)
    /\ UNCHANGED <<factsVars, fsVars, episodicVars, lastCall, pipelineVars,
                   promptVars, ragVars, routerVars, costVars, logged, healthVars, streamVars, fileVars, sessionFileVars>>

InitLogger ==
    /\ InitProject
    /\ NoSession /\ NoRetriever /\ NoRouter /\ NoTracker /\ NoLogger /\ NoHealth /\ NoStream /\ Parsable /\ NoSessionFile

NextLogger == Log \/ Flush

SpecLogger == InitLogger /\ [][NextLogger]_vars

----------------------------------------------------------------------------
(* healthcheck of the three providers.  The server's answer is an error of  *)
(* the HTTP client, or a status code with a body.                           *)

MaxChecks == 2          \* healthcheck calls per behaviour

ProviderTypes == {"ollama", "openai", "anthropic"}

\* what json.loads makes of the body: a listing that names the configured
\* model, one that names it with a tag ("qwen3:8b" for "qwen3"), one without
\* it, an object without "models", an object whose "models" is null, a JSON
\* value that is no object, or no JSON at all
Bodies == {"exact", "tagged", "absent", "no_models_key", "models_null",
           "not_object", "not_json"}

\* httpx.ConnectError and httpx.TimeoutException (both httpx.RequestError), or a
\* response
Answers ==
    {[error |-> e, status |-> 0, body |-> "not_json"] : e \in {"refused", "timeout"}}
    \cup {[error |-> "none", status |-> st, body |-> "not_json"] : st \in {404, 500}}
    \cup {[error |-> "none", status |-> 200, body |-> b] : b \in Bodies}

\* OllamaProvider.healthcheck on a 200 response: response.json(), data.get,
\* the loop over the models, the name test
ollama_listing(body) ==
    CASE body = "not_json" -> "raised"        \* json.JSONDecodeError
      [] body = "not_object" -> "raised"      \* AttributeError: no data.get
      [] body = "models_null" -> "raised"     \* TypeError: None is not iterable
      [] body \in {"exact", "tagged"} -> "True"
      [] OTHER -> "False"

\* the three healthcheck methods; only httpx.RequestError is caught
healthcheck(provider_type, answer) ==
    IF answer.error # "none" THEN "False"
    ELSE CASE provider_type = "ollama" ->
                IF answer.status = 200 THEN ollama_listing(answer.body) ELSE "False"
           [] provider_type = "openai" ->
                IF answer.status = 200 THEN "True" ELSE "False"
           [] OTHER ->
                IF answer.status \in {200, 404} THEN "True" ELSE "False"

Healthcheck ==
    /\ Len(health) < MaxChecks
    /\ \E provider_type \in ProviderTypes, answer \in Answers :
        health' = Append(health, [provider |-> provider_type, answer |-> answer,
                                  outcome |-> healthcheck(provider_type, answer)])
    /\ UNCHANGED <<factsVars, fsVars, episodicVars, lastCall, pipelineVars,
                   promptVars, ragVars, routerVars, costVars, loggerVars, streamVars, fileVars, sessionFileVars>>

InitHealth ==
    /\ InitProject
    /\ NoSession /\ NoRetriever /\ NoRouter /\ NoTracker /\ NoLogger /\ NoHealth /\ NoStream /\ Parsable /\ NoSessionFile

NextHealth == Healthcheck

SpecHealth == InitHealth /\ [][NextHealth]_vars

----------------------------------------------------------------------------
(* ForeshadowingManager.get_for_context, applied to stores of entries of    *)
(* every status and priority.  The string returned is its sequence of       *)
(* lines.                                                                   *)

MaxEntries == 4         \* entries of a store get_for_context is applied to

Priorities == {"high", "medium", "low"}

Statuses == {"unresolved", "resolved", "abandoned"}

MaxItems == {10, 2}     \* max_items: the default, and a small one

\* plant_foreshadowing called with a priority
plant_with_priority(fss, content, chapter, priority) ==
    [plant_foreshadowing(fss, content, chapter) EXCEPT ![Len(fss) + 1].priority = priority]

RECURSIVE Planted(_)
\* the store after one plant_foreshadowing call per priority of the sequence
Planted(ps) ==
    IF ps = <<>> THEN <<>>
    ELSE plant_with_priority(Planted(SubSeq(ps, 1, Len(ps) - 1)), "c1",
                             ChapterId(1), ps[Len(ps)])

RECURSIVE Settled(_, _, _)
\* the store after the entries from the i-th on were resolved or abandoned in
\* chapter 2 as the sequence of statuses says
Settled(fss, sts, i) ==
    IF i > Len(sts) THEN fss
    ELSE LET fs_id == fss[i].id
             next == CASE sts[i] = "resolved" ->
                            resolve_foreshadowing(fss, fs_id, ChapterId(2), Null)
                       [] sts[i] = "abandoned" ->
                            abandon_foreshadowing(fss, fs_id, ChapterId(2), Null)
                       [] OTHER -> fss
         IN  Settled(next, sts, i + 1)

\* an entry as planted and settled: unresolved ones of every priority, resolved
\* and abandoned ones of the default priority (no line shows theirs)
EntryKinds ==
    {[status |-> "unresolved", priority |-> p] : p \in Priorities}
    \cup {[status |-> st, priority |-> "medium"] : st \in Statuses \ {"unresolved"}}

\* the stores of up to MaxEntries entries
Stores ==
    UNION {{Settled(Planted([i \in 1..n |-> ks[i].priority]),
                    [i \in 1..n |-> ks[i].status], 1) :
               ks \in [1..n -> EntryKinds]} :
           n \in 0..MaxEntries}

\* [f for f in xs if f.status == status]
WithStatus(fss, status) == SelectSeq(fss, LAMBDA f : f.status = status)

\* priority_order.get(x.priority, 3)
priority_order(priority) ==
    CASE priority = "high" -> 0
      [] priority = "medium" -> 1
      [] priority = "low" -> 2
      [] OTHER -> 3

RECURSIVE InsertByPriority(_, _)
InsertByPriority(x, s) ==
    IF s = <<>> THEN <<x>>
    ELSE IF priority_order(x.priority) < priority_order(Head(s).priority)
    THEN <<x>> \o s
    ELSE <<Head(s)>> \o InsertByPriority(x, Tail(s))

RECURSIVE SortByPriority(_)
\* list.sort(key=priority_order): stable
SortByPriority(s) ==
    IF s = <<>> THEN <<>>
    ELSE InsertByPriority(s[Len(s)], SortByPriority(SubSeq(s, 1, Len(s) - 1)))

\* get_unresolved()
get_unresolved(fss) == SortByPriority(WithStatus(fss, "unresolved"))

\* get_for_context: the lines joined
get_for_context(fss, max_items) ==
    IF fss = <<>> THEN <<>>
    ELSE LET unresolved == FirstN(WithStatus(fss, "unresolved"), max_items)
             resolved == LastN(WithStatus(fss, "resolved"), 3)
         IN  <<[k |-> "title"], [k |-> "blank"]>>
             \o (IF unresolved = <<>> THEN <<>>
                 ELSE <<[k |-> "unresolved_heading"]>>
                      \o [i \in DOMAIN unresolved |->
                            [k |-> "unresolved", id |-> unresolved[i].id,
                             content |-> unresolved[i].content,
                             priority |-> unresolved[i].priority]]
                      \o <<[k |-> "blank"]>>)
             \o (IF resolved = <<>> THEN <<>>
                 ELSE <<[k |-> "resolved_heading"]>>
                      \o [i \in DOMAIN resolved |->
                            [k |-> "resolved", id |-> resolved[i].id,
                             content |-> resolved[i].content,
                             chapter |-> resolved[i].resolution_chapter]]
                      \o <<[k |-> "blank"]>>)

GetForContext ==
    /\ \E max_items \in MaxItems :
        lastCall' = [op |-> "get_for_context", id |-> Null, max_items |-> max_items,
                     lines |-> get_for_context(foreshadowings, max_items)]
    /\ UNCHANGED <<libVars, factsVars, fsVars, episodicVars, pipelineVars>>

GetUnresolved ==
    /\ lastCall' = [op |-> "get_unresolved", id |-> Null,
                    list |-> get_unresolved(foreshadowings)]
    /\ UNCHANGED <<libVars, factsVars, fsVars, episodicVars, pipelineVars>>

\* a project whose foreshadow.json holds one of the stores
InitContext ==
    /\ InitPipeline
    /\ NoSession /\ NoRetriever /\ NoRouter /\ NoTracker /\ NoLogger /\ NoHealth /\ NoStream /\ Parsable /\ NoSessionFile
    /\ enable_revision = TRUE
    /\ max_facts = 1
    /\ facts = <<>>
    /\ archive = <<>>
    /\ factLog = <<>>
    /\ foreshadowings \in Stores
    /\ lastCall = NoCall
    /\ max_scenes = 1
    /\ episodic = <<>>
    /\ sceneLog = <<>>

NextContext == GetForContext \/ GetUnresolved

SpecContext == InitContext /\ [][NextContext]_vars

----------------------------------------------------------------------------
(* FactsManager.get_facts_for_context.  The string returned is the          *)
(* sequence of the lengths of its lines.                                    *)

HeadingLen == 14        \* len("## Facts（確定事実）")

MaxChars == {600, 24, 10}   \* max_chars: the default, and two small budgets

RECURSIVE FactLines(_, _, _, _)
\* the loop over the facts: the lines appended, current_len being the running
\* length
FactLines(fs, i, current_len, max_chars) ==
    IF i > Len(fs) THEN <<>>
    ELSE LET line == 2 + Len(fs[i].content)       \* f"- {fact.content}"
         IN  IF current_len + line > max_chars
             THEN <<3>>                            \* "..."
             ELSE <<line>> \o FactLines(fs, i + 1, current_len + line + 1, max_chars)

\* get_facts_for_context: the lines joined by the caller of this operator
get_facts_for_context(fs, max_chars) ==
    LET lines == <<HeadingLen, 0>>
    IN  lines \o FactLines(fs, 1, JoinLen(lines), max_chars)

GetFactsForContext ==
    /\ \E max_chars \in MaxChars :
        lastCall' = [op |-> "get_facts_for_context", id |-> Null,
                     max_chars |-> max_chars,
                     lines |-> get_facts_for_context(facts, max_chars)]
    /\ UNCHANGED <<libVars, factsVars, fsVars, episodicVars, pipelineVars>>

NextFactsContext == AddFact \/ GetFactsForContext

SpecFactsContext == InitFacts /\ [][NextFactsContext]_vars

----------------------------------------------------------------------------
(* generate_stream of the three providers, one line of the response at a    *)
(* time.  A content frame's text is the frame's position in the stream.     *)

MaxFrames == 3          \* lines of a streamed response

\* the lines a server sends: a well-formed content frame; the terminal marker
\* ({"done": true} for Ollama, "data: [DONE]" for the others); undecodable
\* JSON; a JSON object without the expected fields ("{}"); an object whose
\* "choices" list is empty; an empty line
FrameKinds == {"content", "done", "bad_json", "no_fields", "empty_choices", "blank"}

\* what the loop body does with one line
read_frame(provider_type, kind) ==
    CASE kind = "content" -> "yield"
      [] kind = "done" -> "break"
      [] kind = "empty_choices" /\ provider_type = "openai" ->
            "raise"                     \* data["choices"][0]: IndexError, not caught
      [] OTHER -> "continue"

\* generate_stream is called and the response opens
GenerateStream ==
    /\ stream.status = "none"
    /\ \E provider_type \in ProviderTypes, n \in 0..MaxFrames :
        \E frames \in [1..n -> FrameKinds] :
            stream' = [provider |-> provider_type, frames |-> frames, pos |-> 0,
                       yielded |-> <<>>, status |-> "open"]
    /\ UNCHANGED <<factsVars, fsVars, episodicVars, lastCall, pipelineVars,
                   promptVars, ragVars, routerVars, costVars, loggerVars, healthVars, fileVars, sessionFileVars>>

\* the consumer asks for more: the next line is read, or the response is at
\* its end
NextFrame ==
    /\ stream.status = "open"
    /\ IF stream.pos = Len(stream.frames)
       THEN stream' = [stream EXCEPT !.status = "ended"]
       ELSE LET i == stream.pos + 1
                does == read_frame(stream.provider, stream.frames[i])
            IN  stream' = [stream EXCEPT
                              !.pos = i,
                              !.yielded = IF does = "yield" THEN Append(@, i) ELSE @,
                              !.status = CASE does = "break" -> "ended"
                                           [] does = "raise" -> "failed"
                                           [] OTHER -> "open"]
    /\ UNCHANGED <<factsVars, fsVars, episodicVars, lastCall, pipelineVars,
                   promptVars, ragVars, routerVars, costVars, loggerVars, healthVars, fileVars, sessionFileVars>>

InitStream ==
    /\ InitProject
    /\ NoSession /\ NoRetriever /\ NoRouter /\ NoTracker /\ NoLogger /\ NoHealth /\ NoStream /\ Parsable /\ NoSessionFile

NextStream == GenerateStream \/ NextFrame

SpecStream == InitStream /\ [][NextStream]_vars

----------------------------------------------------------------------------
(* The JSON stores on a file that cannot be parsed: load returns [] and the *)
(* operation saves what it made of that.                                    *)

MaxStoreAdds == 2       \* add_fact calls per behaviour, in this specification

\* FactsManager.load and ForeshadowingManager.load: the except clause returns
\* [] when json.load raises JSONDecodeError
load(list, bad) == IF bad THEN <<>> ELSE list

\* the bookkeeping of a store call: the file it works on and how it found it
StoreCall(op, id, file) ==
    [op |-> op, id |-> id, file |-> file, found_unparsable |-> unparsable[file]]

\* json.dump to the file opened with 'w': what the file held is replaced
Saved(file) == [unparsable EXCEPT ![file] = FALSE]

\* something other than the managers leaves a store file that is no JSON: an
\* interrupted write, a hand edit
Damage ==
    /\ \E file \in {"facts", "foreshadow"} :
         /\ ~unparsable[file]
         /\ unparsable' = [unparsable EXCEPT ![file] = TRUE]
    /\ lastCall' = NoCall
    /\ UNCHANGED <<factsVars, fsVars, episodicVars, pipelineVars,
                   promptVars, ragVars, routerVars, costVars,
                   loggerVars, healthVars, streamVars,
                   sessionFileVars>>

StoreAddFact ==
    /\ Len(factLog) < MaxStoreAdds
    /\ \E content \in Contents :
         LET r == add_fact(load(facts, unparsable.facts), archive, max_facts,
                           content, ChapterId(1))
         IN  /\ facts' = r.facts
             /\ archive' = r.archive
             /\ factLog' = Append(factLog, r.fact)
             /\ lastCall' = StoreCall("add_fact", r.id, "facts")
    /\ unparsable' = Saved("facts")
    /\ UNCHANGED <<max_facts, fsVars, episodicVars, pipelineVars,
                   promptVars, ragVars, routerVars, costVars,
                   loggerVars, healthVars, streamVars,
                   sessionFileVars>>

StorePlant ==
    /\ Len(load(foreshadowings, unparsable.foreshadow)) < MaxPlants
    /\ LET fss == load(foreshadowings, unparsable.foreshadow)
       IN  /\ foreshadowings' = plant_foreshadowing(fss, "c1", ChapterId(1))
           /\ lastCall' = StoreCall("plant", plant_id(fss), "foreshadow")
    /\ unparsable' = Saved("foreshadow")
    /\ UNCHANGED <<factsVars, episodicVars, pipelineVars,
                   promptVars, ragVars, routerVars, costVars,
                   loggerVars, healthVars, streamVars,
                   sessionFileVars>>

StoreResolve ==
    /\ \E fs_id \in FsIds :
         /\ foreshadowings' =
                resolve_foreshadowing(load(foreshadowings, unparsable.foreshadow),
                                      fs_id, ChapterId(1), Null)
         /\ lastCall' = StoreCall("resolve", fs_id, "foreshadow")
    /\ unparsable' = Saved("foreshadow")
    /\ UNCHANGED <<factsVars, episodicVars, pipelineVars,
                   promptVars, ragVars, routerVars, costVars,
                   loggerVars, healthVars, streamVars,
                   sessionFileVars>>

StoreAbandon ==
    /\ \E fs_id \in FsIds :
         /\ foreshadowings' =
                abandon_foreshadowing(load(foreshadowings, unparsable.foreshadow),
                                      fs_id, ChapterId(1), Null)
         /\ lastCall' = StoreCall("abandon", fs_id, "foreshadow")
    /\ unparsable' = Saved("foreshadow")
    /\ UNCHANGED <<factsVars, episodicVars, pipelineVars,
                   promptVars, ragVars, routerVars, costVars,
                   loggerVars, healthVars, streamVars,
                   sessionFileVars>>

NextStoreFiles == Damage \/ StoreAddFact \/ StorePlant \/ StoreResolve \/ StoreAbandon

SpecStoreFiles == InitFacts /\ [][NextStoreFiles]_vars

----------------------------------------------------------------------------
(* Reading the stores back, for the properties below.                      *)

Min(a, b) == IF a < b THEN a ELSE b

RECURSIVE Reverse(_)
Reverse(s) == IF s = <<>> THEN <<>> ELSE Append(Reverse(Tail(s)), Head(s))

\* the line numbers of the scene headers of a document
HeaderLines(doc) == {i \in 1..Len(doc) : doc[i].k = "hdr"}

\* the number of scene blocks of a document
NumBlocks(doc) == Cardinality(HeaderLines(doc))

\* the j-th scene block of a document, as the call that wrote it
BlockAt(doc, j) ==
    LET hs == HeaderLines(doc)
        from == Nth(hs, j)
        to == IF j < Cardinality(hs) THEN Nth(hs, j + 1) - 1 ELSE Len(doc)
        body == SubSeq(doc, from, to)
        povs == SelectSeq(body, LAMBDA l : l.k = "pov")
        evs == SelectSeq(body, LAMBDA l : l.k = "events")
        texts == SelectSeq(body, LAMBDA l : l.k = "text" /\ l.s \notin {"", "---"})
    IN  [scene |-> doc[from].n, chapter |-> doc[from].c,
         pov |-> IF povs = <<>> THEN Null ELSE povs[1].s,
         events |-> IF evs = <<>> THEN "" ELSE evs[1].s,
         summary |-> IF texts = <<>> THEN "" ELSE texts[1].s]

\* the scene blocks of a document, top to bottom
Blocks(doc) == [j \in 1..NumBlocks(doc) |-> BlockAt(doc, j)]

\* a logged add_scene_summary call as the block it should read back as
Logged(call) == [call EXCEPT !.events = JoinComma(call.events)]

----------------------------------------------------------------------------
(* Properties of the facts store (SpecFacts).                              *)

\* C1: the j-th add_fact call returns the id f<j>, so every id returned differs from
\* every id returned before, and no two facts of the main store and the archive
\* share an id.
C1_IdsUniqueAndOrdered ==
    /\ \A j \in 1..Len(factLog) : factLog[j].id = "f" \o Pad3(j)
    /\ LET all == archive \o facts
       IN  \A i, j \in 1..Len(all) : i # j => all[i].id # all[j].id

\* C2: after k add_fact calls the main store holds the min(k, max_facts) facts added
\* last, in insertion order, and the archive holds all the others, oldest first.
C2_NewestKeptRestArchived ==
    LET k == Len(factLog)
        m == Min(k, max_facts)
    IN  /\ facts = SubSeq(factLog, k - m + 1, k)
        /\ archive = SubSeq(factLog, 1, k - m)

C2_Witness ==
    /\ Len(factLog) = max_facts + 2
    /\ Len(archive) = 2
    /\ archive[1] = factLog[1]
    /\ Len(facts) = max_facts

----------------------------------------------------------------------------
(* Properties of the foreshadowing store (SpecForeshadowing).              *)

Terminal(st) == st \in {"resolved", "abandoned"}

\* C3: a resolved or abandoned entry keeps its status in every later step.
C3_TerminalStatusKept ==
    [][\A i \in 1..Len(foreshadowings) :
          Terminal(foreshadowings[i].status)
             => /\ i <= Len(foreshadowings')
                /\ foreshadowings'[i].status = foreshadowings[i].status]_vars

\* C4: every status is unresolved, resolved or abandoned; a resolved or abandoned
\* entry has a resolution_chapter; an entry that has left unresolved does not
\* become unresolved again.
C4_StatusInvariant ==
    /\ [](\A i \in 1..Len(foreshadowings) :
            /\ foreshadowings[i].status \in {"unresolved", "resolved", "abandoned"}
            /\ Terminal(foreshadowings[i].status)
                  => foreshadowings[i].resolution_chapter # Null)
    /\ [][\A i \in 1..Len(foreshadowings) :
            foreshadowings[i].status # "unresolved"
               => /\ i <= Len(foreshadowings')
                  /\ foreshadowings'[i].status # "unresolved"]_vars

C4_Witness ==
    /\ Len(foreshadowings) >= 2
    /\ foreshadowings[1].status = "resolved"
    /\ foreshadowings[1].resolution_chapter = ChapterId(2)
    /\ foreshadowings[2].status = "abandoned"
    /\ foreshadowings[2].resolution_chapter = ChapterId(1)

\* C5: a resolve_foreshadowing call on an entry that is already resolved changes
\* no field of any entry.
C5_ResolveIdempotent ==
    [][(/\ lastCall'.op = "resolve"
        /\ \E i \in 1..Len(foreshadowings) :
              /\ foreshadowings[i].id = lastCall'.id
              /\ foreshadowings[i].status = "resolved")
          => foreshadowings' = foreshadowings]_vars

\* C6: all entry ids are pairwise distinct, and a plant_foreshadowing call appends
\* exactly one entry, unresolved, whose id no earlier entry has.
C6_PlantFreshId ==
    /\ [](\A i, j \in 1..Len(foreshadowings) :
            i # j => foreshadowings[i].id # foreshadowings[j].id)
    /\ [][lastCall'.op = "plant"
            => LET n == Len(foreshadowings)
               IN  /\ Len(foreshadowings') = n + 1
                   /\ SubSeq(foreshadowings', 1, n) = foreshadowings
                   /\ foreshadowings'[n + 1].status = "unresolved"
                   /\ foreshadowings'[n + 1].id = lastCall'.id
                   /\ \A i \in 1..n :
                         foreshadowings[i].id # foreshadowings'[n + 1].id]_vars

C6_Witness ==
    /\ lastCall.op = "plant"
    /\ Len(foreshadowings) = 2
    /\ foreshadowings[1].content = foreshadowings[2].content
    /\ foreshadowings[1].created_in = foreshadowings[2].created_in
    /\ foreshadowings[1].status = "resolved"
    /\ foreshadowings[2].status = "unresolved"
    /\ foreshadowings[1].id # foreshadowings[2].id

----------------------------------------------------------------------------
(* Properties of the episodic recap (SpecEpisodic).                        *)

\* C7: the document holds at most max_scenes scene blocks.
C7_AtMostMaxScenes == NumBlocks(episodic) <= max_scenes

\* C8: after k add_scene_summary calls the document lists, newest first, exactly
\* the min(k, max_scenes) blocks added last.
C8_NewestBlocksKept ==
    LET k == Len(sceneLog)
        m == Min(k, max_scenes)
        newest == SubSeq(sceneLog, k - m + 1, k)
    IN  Blocks(episodic) = Reverse([j \in 1..m |-> Logged(newest[j])])

\* C38: every block of the document is a block some add_scene_summary call
\* wrote, with that call's scene number, chapter, POV and summary: a retained
\* block is never renumbered nor given another scene's body
C38_RetainedBlocksAsWritten ==
    \A j \in 1..NumBlocks(episodic) :
        \E k \in DOMAIN sceneLog : Blocks(episodic)[j] = Logged(sceneLog[k])

----------------------------------------------------------------------------
(* Properties of the scene pipeline (SpecSwarm).                           *)

Count(s, x) == Cardinality({i \in 1..Len(s) : s[i] = x})

\* the call has got past the Checker and the revision decision
PastRevision ==
    \/ pc \in {"commit", "commit_facts", "commit_foreshadowing", "persist",
               "advance", "done"}
    \/ InSeq("committer", stages)

Follows(a, b) ==
    <<a, b>> \in {<<"director", "writer">>, <<"writer", "checker">>,
                  <<"checker", "editor">>, <<"checker", "committer">>,
                  <<"editor", "committer">>, <<"committer", "commit_report">>,
                  <<"commit_report", "save_chapter">>, <<"save_chapter", "advance">>}

\* the recap, facts and foreshadowing updates of the call in progress are all made
MemoryUpdated ==
    /\ run.report.episodic_updated
    /\ NumBlocks(episodic) >= 1
    /\ BlockAt(episodic, 1).scene = run.scene
    /\ BlockAt(episodic, 1).chapter = run.chapter
    /\ BlockAt(episodic, 1).summary = Summarize(run.text)
    /\ Len(run.report.facts_added) = Len(ExtractFacts(run.text))
    /\ run.scenespec.continuity
         => /\ run.report.foreshadowing_resolved = run.scenespec.to_resolve
            /\ Len(run.report.foreshadowing_planted) = Len(run.scenespec.to_plant)
            /\ \A i \in 1..Len(run.report.foreshadowing_planted) :
                  \E k \in 1..Len(foreshadowings) :
                     /\ foreshadowings[k].id = run.report.foreshadowing_planted[i]
                     /\ foreshadowings[k].content = run.scenespec.to_plant[i]

\* C10: the stages of one call are invoked in the order Director, Writer, Checker,
\* optional Editor, Committer, chapter-file write, scene-counter advance, each
\* after the one before it; the chapter file is written only after the Committer
\* has returned with every memory update made, and the scene counter advances
\* only after the chapter file is written.
C10_StagesInOrder ==
    /\ [](\A i \in 1..Len(stages) :
            IF i = 1 THEN stages[i] = "director"
            ELSE Follows(stages[i - 1], stages[i]))
    /\ [](InSeq("save_chapter", stages) => MemoryUpdated)
    /\ [][chapters' # chapters
            => /\ InSeq("commit_report", stages)
               /\ stages' = Append(stages, "save_chapter")]_vars
    /\ [][current_scene' # current_scene
            => /\ InSeq("save_chapter", stages)
               /\ stages' = Append(stages, "advance")]_vars

C10_Witness ==
    /\ pc = "done"
    /\ stages = <<"director", "writer", "checker", "editor", "committer",
                  "commit_report", "save_chapter", "advance">>
    /\ chapters[run.chapter] = run.text
    /\ current_scene = run.scene + 1
    /\ run.report.foreshadowing_planted # <<>>
    /\ run.report.facts_added # <<>>


\* a generate_scene call has ended, by returning or by raising
RunEnded == nruns >= 1 /\ pc \in {"done", "aborted"}

\* the Committer returned its report in the call
Committed == InSeq("commit_report", stages)

\* C11 as stated: over any sequence of calls, the chapter file of the scene's
\* chapter exists after the call if and only if the Committer returned its report
\* in that call.
C11_FileExistsIffCommitted ==
    RunEnded => (chapters[run.chapter] # Null <=> Committed)

\* C11: a call writes the chapter file of its chapter if and only if the Committer
\* returned its report in that call, and then the file holds the text committed;
\* otherwise every chapter file is as the call found it. So the file exists after
\* the call if and only if it existed before or the Committer returned its report.
C11_FileWrittenIffCommitted ==
    RunEnded =>
        /\ InSeq("save_chapter", stages) <=> Committed
        /\ Committed => chapters[run.chapter] = run.text
        /\ ~Committed => chapters = run.before.chapters
        /\ chapters[run.chapter] # Null
              <=> (run.before.chapters[run.chapter] # Null \/ Committed)
        /\ \A c \in Chapters \ {run.chapter} : chapters[c] = run.before.chapters[c]

\* a second call on a chapter whose file an earlier call wrote; its commit raises
C11_Witness ==
    /\ RunEnded
    /\ nruns = 2
    /\ InSeq("committer", stages)
    /\ ~Committed
    /\ run.before.chapters[run.chapter] # Null
    /\ chapters[run.chapter] = run.before.chapters[run.chapter]


----------------------------------------------------------------------------
(* Properties of both pipelines (SpecSwarm, SpecTwoStage).                 *)

\* the recap holds a block labelled with the scene and chapter of the call in
\* progress, carrying the summary of its text
SceneRecorded ==
    \E j \in 1..NumBlocks(episodic) :
       /\ BlockAt(episodic, j).scene = run.scene
       /\ BlockAt(episodic, j).chapter = run.chapter
       /\ BlockAt(episodic, j).summary = Summarize(run.text)

\* every entry the call found and its SceneSpec names in foreshadowing_to_resolve
\* is resolved with the call's chapter, and every foreshadowing_to_plant content is
\* an entry added since, created in the call's chapter
DirectivesApplied ==
    LET old == run.before.foreshadowings
        to_resolve == run.scenespec.to_resolve
        to_plant == run.scenespec.to_plant
    IN  /\ Len(foreshadowings) >= Len(old)
        /\ \A k \in 1..Len(old) :
              InSeq(old[k].id, to_resolve)
                 => /\ foreshadowings[k].status = "resolved"
                    /\ foreshadowings[k].resolution_chapter = ChapterId(run.chapter)
        /\ \A i \in 1..Len(to_plant) :
              \E k \in (Len(old) + 1)..Len(foreshadowings) :
                 /\ foreshadowings[k].content = to_plant[i]
                 /\ foreshadowings[k].created_in = ChapterId(run.chapter)

\* C12: whenever the chapter file holds the text of the scene of the call in
\* progress, the recap already holds the block of that scene and chapter, and every
\* foreshadowing_to_resolve and foreshadowing_to_plant directive of its SceneSpec
\* has already been applied with that chapter.
C12_FileImpliesMemory ==
    (nruns >= 1 /\ InSeq("save_chapter", stages))
       => SceneRecorded /\ DirectivesApplied


----------------------------------------------------------------------------
(* Properties of the swarm pipeline's commit and failure handling          *)
(* (SpecSwarm).                                                            *)

\* the first call on a new project, for chapter 1 scene 1, has ended; its Director
\* returned a complete SceneSpec with one foreshadowing_to_plant string and its
\* Checker returned no issue
FirstSceneRun ==
    /\ RunEnded
    /\ nruns = 1
    /\ run.chapter = 1 /\ run.scene = 1
    /\ InSeq("checker", stages)
    /\ run.scenespec = SpecFull
    /\ run.issues = <<>>

\* C13: that call ends with chapter_001.md equal to the Writer's text, exactly one
\* block in the recap, exactly one foreshadowing entry, fs001 and unresolved, and
\* the scene counter at 2.
C13_FirstSceneCommitted ==
    FirstSceneRun
       => /\ pc = "done"
          /\ run.text \in Texts
          /\ chapters[1] = run.text
          /\ NumBlocks(episodic) = 1
          /\ Len(foreshadowings) = 1
          /\ foreshadowings[1].id = "fs001"
          /\ foreshadowings[1].status = "unresolved"
          /\ current_scene = 2


\* C14: commit raises for no SceneSpec that has a narrative section, and the recap
\* block it prepends lists the key_events of that section.
C14_NarrativeCommitReturns ==
    (nruns >= 1 /\ InSeq("committer", stages) /\ run.scenespec.narrative)
       => /\ run.error # "committer"
          /\ run.report.episodic_updated
          /\ BlockAt(episodic, 1).events = JoinComma(KeyEvents(run.scenespec))


\* C15: when the Director or the Writer raises, the call ends there: no Checker,
\* Editor or Committer is invoked, and the recap, the facts store and its archive,
\* the foreshadowing store, every chapter file and the scene counter are as the
\* call found them.
C15_DirectorWriterFailureAborts ==
    (nruns >= 1 /\ run.error \in {"director", "writer"})
       => /\ pc = "aborted"
          /\ stages[Len(stages)] = run.error
          /\ \A i \in 1..Len(stages) :
                stages[i] \notin {"checker", "editor", "committer", "commit_report",
                                  "save_chapter", "advance"}
          /\ Snapshot = run.before

\* a Writer failure in a second call, on a project the first call has written to
C15_Witness ==
    /\ nruns = 2
    /\ run.error = "writer"
    /\ pc = "aborted"
    /\ stages = <<"director", "writer">>
    /\ chapters[run.chapter] # Null
    /\ NumBlocks(episodic) >= 1
    /\ Len(facts) >= 1
    /\ Len(foreshadowings) >= 1
    /\ current_scene = 2


\* what commit had written when it raised: nothing if it raised at the key_events
\* lookup, else the recap block, the facts and the resolutions
CommitWritten ==
    LET chapter_id == ChapterId(run.chapter)
        pov == IF run.scenespec.constraints THEN run.scenespec.pov ELSE Null
        st == AddFacts([facts |-> run.before.facts, archive |-> run.before.archive,
                        log |-> <<>>, ids |-> <<>>],
                       ExtractFacts(run.text), chapter_id)
    IN  IF run.report.episodic_updated
        THEN [episodic |-> add_scene_summary(run.before.episodic, max_scenes,
                                             run.chapter, run.scene,
                                             Summarize(run.text), pov, <<>>),
              facts |-> st.facts,
              archive |-> st.archive,
              foreshadowings |-> ResolveAll(run.before.foreshadowings,
                                            run.scenespec.to_resolve, chapter_id)]
        ELSE [episodic |-> run.before.episodic,
              facts |-> run.before.facts,
              archive |-> run.before.archive,
              foreshadowings |-> run.before.foreshadowings]

\* C16: when commit raises, the call ends there; no chapter file is created or
\* modified and the scene counter is not advanced; the recap, facts and
\* foreshadowing updates commit had made before it raised stay as written.
C16_CommitFailureNoRollback ==
    (nruns >= 1 /\ run.error = "committer")
       => /\ pc = "aborted"
          /\ stages[Len(stages)] = "committer"
          /\ chapters = run.before.chapters
          /\ current_scene = run.before.current_scene
          /\ episodic = CommitWritten.episodic
          /\ facts = CommitWritten.facts
          /\ archive = CommitWritten.archive
          /\ foreshadowings = CommitWritten.foreshadowings

\* a commit that raised after writing a recap block, two facts and a resolution
C16_Witness ==
    /\ nruns = 2
    /\ run.error = "committer"
    /\ run.report.episodic_updated
    /\ NumBlocks(episodic) = NumBlocks(run.before.episodic) + 1
    /\ Len(facts) = Len(run.before.facts) + 2
    /\ Len(foreshadowings) = 1
    /\ run.before.foreshadowings[1].status = "unresolved"
    /\ foreshadowings[1].status = "resolved"
    /\ chapters[run.chapter] = Null
    /\ current_scene = run.before.current_scene


\* C17: when the Checker's LLM audit fails (the provider raises, or the reply
\* cannot be parsed into issues), check returns exactly the rule-based issues, and
\* the call goes on to the Editor or the Committer.
C17_AuditFailureKeepsRuleIssues ==
    (nruns >= 1 /\ InSeq("checker", stages) /\ run.audit.failed)
       => /\ run.issues = run.audit.rule
          /\ run.error # "checker"
          /\ stages[Len(stages)] = "checker" => pc \in {"editor", "commit"}


\* C18: when the Editor's provider call fails, edit returns the text it was given
\* and raises nothing, the call goes on to the Committer, and it ends with the
\* Writer's text committed and written to the chapter file.
C18_EditorFailureKeepsText ==
    (nruns >= 1 /\ InSeq("editor", stages) /\ run.edit_failed)
       => /\ run.text = run.writer_text
          /\ run.error # "editor"
          /\ stages[Len(stages)] = "editor" => pc = "commit"
          /\ RunEnded => /\ pc = "done"
                         /\ Committed
                         /\ chapters[run.chapter] = run.writer_text


\* the Director's text was not JSON, so the SceneSpec of the call is {"raw": text}
RawRun == nruns >= 1 /\ InSeq("writer", stages) /\ run.scenespec = SpecRaw

\* C19: with the degraded SceneSpec {"raw": text} the call goes on as a normal one:
\* only the Writer can end it early; Writer, Checker, the Editor when revision is due
\* and the Committer run; commit returns, resolving and planting nothing; the
\* chapter file is written with the final text and the scene counter advanced.
C19_RawSpecRunsToCompletion ==
    RawRun
       => /\ run.error \in {Null, "writer"}
          /\ foreshadowings = run.before.foreshadowings
          /\ run.report.foreshadowing_resolved = <<>>
          /\ run.report.foreshadowing_planted = <<>>
          /\ RunEnded /\ run.error = Null
                => /\ pc = "done"
                   /\ stages \in {<<"director", "writer", "checker", "committer",
                                    "commit_report", "save_chapter", "advance">>,
                                  <<"director", "writer", "checker", "editor",
                                    "committer", "commit_report", "save_chapter",
                                    "advance">>}
                   /\ InSeq("editor", stages)
                         <=> NeedsEdit(run.issues, enable_revision)
                   /\ run.report.episodic_updated
                   /\ SceneRecorded
                   /\ chapters[run.chapter] = run.text
                   /\ current_scene = run.scene + 1

\* a second call, degraded, revised and completed on a project that holds an
\* unresolved foreshadowing entry
C19_Witness ==
    /\ RawRun
    /\ pc = "done"
    /\ nruns = 2
    /\ InSeq("editor", stages)
    /\ Len(foreshadowings) = 1
    /\ foreshadowings[1].status = "unresolved"
    /\ chapters[run.chapter] = run.text
    /\ current_scene = run.scene + 1


\* the run log holds an entry with status error that names the agent
ErrorLogged(agent) ==
    \E i \in 1..Len(run_log) :
       /\ run_log[i].agent = agent
       /\ "status" \in DOMAIN run_log[i]
       /\ run_log[i].status = "error"

\* C20: once the Checker's LLM audit has failed, the Editor's provider call has
\* failed or the Committer has raised in a call, the run log holds an entry with
\* status error naming that agent.
C20_FailuresLogged ==
    nruns >= 1
       => /\ (InSeq("checker", stages) /\ run.audit.failed) => ErrorLogged("checker")
          /\ (InSeq("editor", stages) /\ run.edit_failed) => ErrorLogged("editor")
          /\ run.error = "committer" => ErrorLogged("committer")


\* C21 as stated: a commit call that follows a returned commit call with the same
\* text, chapter, scene and SceneSpec leaves the episodic recap, the facts store
\* and the foreshadowing store as the first call left them
C21_CommitIdempotent ==
    (/\ pc = "persist"
     /\ lastCall.op = "commit"
     /\ lastCall.returned
     /\ lastCall.args = CommitArgs)
    => /\ episodic = run.before.episodic
       /\ facts = run.before.facts
       /\ archive = run.before.archive
       /\ foreshadowings = run.before.foreshadowings


\* the ids of the unresolved entries of a foreshadowing list
UnresolvedIds(fss) == {fss[i].id : i \in {j \in 1..Len(fss) : fss[j].status = "unresolved"}}

\* the entries commit found unresolved and was told to resolve
IsTransitioned(fs_id) == fs_id \in UnresolvedIds(run.before.foreshadowings)

\* the entries of the store that were not there when the call began
NewEntries ==
    SubSeq(foreshadowings, Len(run.before.foreshadowings) + 1, Len(foreshadowings))

\* the resolve directives of the call are applied with the call's chapter
ResolvesApplied ==
    \A k \in 1..Len(run.scenespec.to_resolve) :
        LET fs_id == run.scenespec.to_resolve[k]
            i == FirstMatch(foreshadowings, fs_id)
        IN  IsTransitioned(fs_id) =>
                /\ i # 0
                /\ foreshadowings[i].status = "resolved"
                /\ foreshadowings[i].resolution_chapter = ChapterId(run.chapter)

\* each plant directive of the call has made one new unresolved entry
PlantsApplied ==
    /\ Len(NewEntries) = Len(run.scenespec.to_plant)
    /\ \A k \in 1..Len(NewEntries) :
        /\ NewEntries[k].content = run.scenespec.to_plant[k]
        /\ NewEntries[k].status = "unresolved"
        /\ NewEntries[k].created_in = ChapterId(run.chapter)

\* the report lists the entries resolved and planted, and no other
ReportExact ==
    /\ run.report.foreshadowing_resolved =
           SelectSeq(run.scenespec.to_resolve, IsTransitioned)
    /\ run.report.foreshadowing_planted =
           [k \in 1..Len(NewEntries) |-> NewEntries[k].id]

\* C22: when commit has returned, the resolve directives that named an unresolved
\* entry are applied with chapter_{c:03d}, every plant directive has made one new
\* unresolved entry of that chapter, and the report lists exactly the ids of the
\* entries so resolved and planted
C22_DirectivesAppliedAndReported ==
    Committed => /\ ResolvesApplied
                 /\ PlantsApplied
                 /\ ReportExact


\* the scene's memory updates have finished in the call: commit returned its
\* report (SwarmPipeline) or _update_memory returned (TwoStagePipeline)
CommitSucceeded == InSeq("commit_report", stages) \/ InSeq("update_memory", stages)

\* C23: in every step that changes the session's current_scene the scene's commit
\* has succeeded and the counter grows by exactly 1, so it never decreases and
\* never skips a value
C23_SceneCounterAfterCommit ==
    [][current_scene' # current_scene
         => /\ CommitSucceeded
            /\ current_scene' = current_scene + 1]_vars


\* the limit of a context block: the budget ConfigManager loaded, which is the
\* default where config.yaml sets none
Budget(block) == budgets[block]

\* C24: in every prompt the Director assembles, each context block is no longer
\* than its budget, the configured one when config.yaml sets context.budgets
C24_BlocksWithinBudget ==
    prompt.built =>
        /\ prompt.retrieved <= Budget("icl")
        /\ prompt.bible <= Budget("bible")
        /\ prompt.characters <= Budget("characters")
        /\ prompt.facts <= Budget("facts")
        /\ prompt.recap <= Budget("recap")


----------------------------------------------------------------------------
(* Properties of the retriever (SpecRetriever).                            *)

\* the last retriever call was a search
IsSearch == ragCall.op \in {"search", "search_for_agent"}

\* the vocabulary is the fit over the current documents and every document
\* carries the embedding that vocabulary gives its content
EmbeddingsCurrent ==
    /\ embedder = BuiltEmbedder(documents)
    /\ \A i \in 1..Len(documents) :
        /\ documents[i].embedded
        /\ documents[i].embedding = embed(embedder, documents[i].content)

\* C25: a search made after an add_document call with no build() since returns
\* [], and a search that returns results was computed with the retriever fitted
\* and every embedding produced by the fit over its current documents
C25_SearchOnlyOnCurrentIndex ==
    IsSearch => /\ ragCall.stale => results = <<>>
                /\ results # <<>> => fitted /\ EmbeddingsCurrent

\* a search on a retriever that had an index, after a document was added to it
C25_Witness ==
    /\ IsSearch
    /\ ragCall.stale
    /\ results = <<>>
    /\ \E i \in 1..Len(documents) : documents[i].embedded
    /\ \E i \in 1..Len(documents) : ~documents[i].embedded


\* C26 as stated: a search on a retriever whose vocabulary is empty returns [],
\* whatever the query, top_k and doc_type, also when documents are indexed and
\* the index is built
C26_EmptyVocabularyNoResults ==
    (ragCall.op = "search" /\ embedder.vocab = {}) => results = <<>>

\* the scores of two results are equal
SameScore(a, b) == ~ScoreLess(a.score, b.score) /\ ~ScoreLess(b.score, a.score)

\* the order of document ids: "d1" before "d2" before ... "d9"
IdBefore(a, b) ==
    LET ids == <<"d1", "d2", "d3", "d4", "d5", "d6", "d7", "d8", "d9">>
        pos(x) == CHOOSE i \in 1..Len(ids) : ids[i] = x
    IN  pos(a) < pos(b)

\* C27 as stated: search returns at most top_k results, only of the doc_type
\* asked for, in non-increasing score order with ranks 1..n, and of two results
\* with equal score the one with the earlier document id comes first
C27_SearchOrdered ==
    ragCall.op = "search" =>
        /\ Len(results) <= ragCall.top_k
        /\ \A k \in 1..Len(results) :
            /\ results[k].rank = k
            /\ ragCall.doc_type # Null => results[k].doc_type = ragCall.doc_type
        /\ \A j, k \in 1..Len(results) :
            j < k => /\ ~ScoreLess(results[j].score, results[k].score)
                     /\ SameScore(results[j], results[k])
                            => IdBefore(results[j].id, results[k].id)

----------------------------------------------------------------------------
(* Properties of the provider router (SpecRouter).                         *)

\* a get_provider call has been made
Looked == routerCall.outcome # "none"

\* what get_provider leaves behind: a call that returns gives the instance that
\* is cached for the role, the one cached before if there was one, and a call
\* that raises leaves the cache as it was
LookupCached ==
    Looked =>
        /\ routerCall.outcome = "returned" =>
              /\ routerCall.instance # 0
              /\ providers[routerCall.role] = routerCall.instance
              /\ routerCall.before[routerCall.role] # 0 =>
                    /\ routerCall.instance = routerCall.before[routerCall.role]
                    /\ ~routerCall.created
              /\ \A r \in Roles \ {routerCall.role} :
                    providers[r] = routerCall.before[r]
        /\ routerCall.outcome = "raised" => providers = routerCall.before
        /\ (routerCall.outcome = "raised" /\ ~routerCall.created) =>
              /\ provider_name(routerCall.role) \notin DOMAIN provider_config.available
              /\ providers[routerCall.role] = 0

\* C29 as stated: repeated lookups return the identical instance, the factory is
\* invoked at most once per role, and a lookup that fails caches nothing and
\* leaves the other roles' instances unchanged
C29_FactoryOncePerRole ==
    /\ LookupCached
    /\ \A r \in Roles : factory[r].calls <= 1

\* C29, amended: repeated lookups return the identical instance, the factory
\* returns an instance at most once per role and is not invoked for a role that
\* has one, and a lookup that fails caches nothing and leaves the other roles'
\* instances unchanged
C29_InstanceCachedPerRole ==
    /\ LookupCached
    /\ \A r \in Roles : /\ factory[r].returns <= 1
                        /\ (providers[r] # 0) = (factory[r].returns = 1)

\* a lookup returns the cached instance for a role whose first lookup failed in
\* the factory, after a lookup of an unconfigured provider raised
C29_Witness ==
    /\ Looked
    /\ routerCall.outcome = "returned"
    /\ routerCall.before[routerCall.role] # 0
    /\ factory[routerCall.role].calls = 2
    /\ \E r \in Roles : provider_name(r) \notin DOMAIN provider_config.available


----------------------------------------------------------------------------
(* Properties of the cost tracker (SpecTracker).                           *)

RECURSIVE SumOver(_, _)
\* the sum of f[k][field] over the keys of a breakdown
SumOver(f, field) ==
    IF DOMAIN f = {} THEN 0
    ELSE LET k == CHOOSE x \in DOMAIN f : TRUE
         IN  f[k][field] + SumOver([x \in DOMAIN f \ {k} |-> f[x]], field)

\* the sum of the logged costs, None counted as 0
CostSum(log) ==
    SumSeq([i \in DOMAIN log |-> IF log[i].cost.priced THEN log[i].cost.usd ELSE 0])

TokenSum(log) ==
    SumSeq([i \in DOMAIN log |-> log[i].input_tokens + log[i].output_tokens])

\* requests and tokens of the summary, and the partition of both breakdowns
CountsAgree(s) ==
    /\ s.total_requests = Len(s.log)
    /\ s.total_tokens = TokenSum(s.log)
    /\ \A by \in {s.by_agent, s.by_provider} :
          /\ SumOver(by, "requests") = s.total_requests
          /\ SumOver(by, "tokens") = s.total_tokens
    /\ DOMAIN s.by_agent = {s.log[i].agent : i \in DOMAIN s.log}
    /\ DOMAIN s.by_provider = {s.log[i].provider : i \in DOMAIN s.log}

----------------------------------------------------------------------------
(* The text a swarm run ends with (SpecSwarm).                             *)

\* the text generate_scene holds after the Editor stage, or after the Writer
\* when the Editor did not run
FinalText ==
    IF InSeq("editor", stages) THEN edit(run.writer_text, run.edit_failed)
    ELSE run.writer_text

\* C35: when generate_scene has returned, the text the Committer was given
\* (the recap block it wrote summarises it), the content of the chapter's file
\* and trace.final_text are one string, the Editor's output if the Editor ran
\* and the Writer's otherwise; the file holds that text alone and the other
\* chapters' files are as the call found them
C35_FinalTextEverywhere ==
    pc = "done" =>
        /\ run.text = FinalText
        /\ chapters[run.chapter] = FinalText
        /\ sceneLog[Len(sceneLog)].summary = Summarize(FinalText)
        /\ \A c \in Chapters \ {run.chapter} : chapters[c] = run.before.chapters[c]

\* a run whose Editor rewrote the Writer's text has returned, on a chapter whose
\* file held another text before
C35_Witness ==
    /\ pc = "done"
    /\ InSeq("editor", stages) /\ ~run.edit_failed
    /\ run.before.chapters[run.chapter] \notin {Null, FinalText}
    /\ chapters[run.chapter] = Edited(run.writer_text)

----------------------------------------------------------------------------
(* Properties of the facts context (SpecFactsContext).                     *)

\* C36: the string get_facts_for_context(max_chars) returns is at most
\* max_chars long, counting the heading, the bullet lines, the line breaks and
\* the "..." marker
C36_FactsContextWithinMaxChars ==
    lastCall.op = "get_facts_for_context" =>
        JoinLen(lastCall.lines) <= lastCall.max_chars

----------------------------------------------------------------------------
(* Properties of the stores on unparsable files (SpecStoreFiles).          *)

\* C39: a store file that add_fact, plant_foreshadowing, resolve_foreshadowing
\* or abandon_foreshadowing found unparsable is unparsable after the call: the
\* call failed or left the file as it was, it did not replace what the file held
C39_UnparsableFileNotOverwritten ==
    (lastCall.op \in {"add_fact", "plant", "resolve", "abandon"}
        /\ lastCall.found_unparsable) => unparsable[lastCall.file]

----------------------------------------------------------------------------
(* Properties of the session file (SpecSession).                           *)

\* C40: when generate_scene has returned for scene s, the session's JSON file
\* exists and loading the session from it yields current_scene = s + 1
C40_SceneAdvancePersisted ==
    pc = "done" =>
        /\ session_file.exists
        /\ _load_session(session_file).current_scene = run.scene + 1

----------------------------------------------------------------------------
(* Properties of the execution logger (SpecLogger).                        *)

\* s is an initial part of t
IsPrefix(s, t) == Len(s) <= Len(t) /\ s = SubSeq(t, 1, Len(s))

\* C31: once a flush (explicit, or the one in close or get_stats) has followed
\* the last log, the run file holds exactly one line per log call, in call
\* order; at every moment the file and the buffer together hold every entry
\* once; the buffer holds fewer than 10 entries after log returns; and the
\* lines written before a call are still the first lines after it
C31_RunFileOneLinePerLog ==
    /\ logCall.op \in {"flush", "close", "get_stats"} =>
          log_file = [i \in DOMAIN logged |-> JsonLine(logged[i])]
    /\ log_file \o [i \in DOMAIN buffer |-> JsonLine(buffer[i])]
          = [i \in DOMAIN logged |-> JsonLine(logged[i])]
    /\ (logCall.op = "log" /\ logCall.returned) => Len(buffer) < buffer_size
    /\ IsPrefix(logCall.before, log_file)


----------------------------------------------------------------------------
(* Properties of the providers' healthcheck (SpecHealth).                  *)

\* C32: every healthcheck call, of every provider and whatever the server
\* answered, returned true or false
C32_HealthcheckNeverRaises ==
    \A i \in DOMAIN health : health[i].outcome \in {"True", "False"}


----------------------------------------------------------------------------
(* Frame of resolve and abandon (SpecForeshadowing).                       *)

\* what a resolve or abandon call with fs_id may change from fss to after: with
\* a matching entry only that entry, which keeps its id; without one, nothing
OnlyEntryChanged(fss, after, fs_id) ==
    /\ Len(after) = Len(fss)
    /\ \A i \in DOMAIN fss :
          /\ after[i].id = fss[i].id
          /\ fss[i].id # fs_id => after[i] = fss[i]
    /\ (\A i \in DOMAIN fss : fss[i].id # fs_id) => after = fss
    /\ Cardinality({i \in DOMAIN fss : after[i] # fss[i]}) <= 1

\* C34: resolve_foreshadowing and abandon_foreshadowing with an id that matches
\* an entry change only that entry, every other entry and the number and order
\* of entries staying as they were; with an id that matches none, no entry
\* changes and none is added
C34_ResolveAbandonFrame ==
    [][lastCall'.op \in {"resolve", "abandon"} =>
          OnlyEntryChanged(foreshadowings, foreshadowings', lastCall'.id)]_vars

\* the second of two entries was abandoned after the first was resolved, and
\* the first is as the resolve left it
C34_Witness ==
    /\ Len(foreshadowings) = 2
    /\ lastCall.op = "abandon" /\ lastCall.id = "fs002"
    /\ foreshadowings[2].status = "abandoned"
    /\ foreshadowings[1].status = "resolved"
    /\ foreshadowings[1].resolution_note = "n1"

----------------------------------------------------------------------------
(* Properties of the foreshadowing context (SpecContext).                  *)

\* the lines of one kind, in the order listed
LinesOf(lines, kind) == SelectSeq(lines, LAMBDA l : l.k = kind)

\* the ids of a list of entries or of lines, in order
IdsOf(s) == [i \in DOMAIN s |-> s[i].id]

\* the unresolved lines are in priority order: none is followed by a line of
\* a higher priority
ListedByPriority(lines) ==
    LET listed == LinesOf(lines, "unresolved")
    IN  \A i, j \in DOMAIN listed :
            i < j => priority_order(listed[i].priority) <= priority_order(listed[j].priority)

\* the entries listed are unresolved ones (all of them when max_items allows),
\* the resolved lines are the last three resolved entries in store order, and
\* no abandoned entry is listed
ListedEntries(lines, fss, max_items) ==
    LET listed == IdsOf(LinesOf(lines, "unresolved"))
        unresolved == IdsOf(WithStatus(fss, "unresolved"))
        abandoned == IdsOf(WithStatus(fss, "abandoned"))
    IN  /\ {listed[i] : i \in DOMAIN listed} \subseteq {unresolved[i] : i \in DOMAIN unresolved}
        /\ Len(listed) = IF Len(unresolved) < max_items THEN Len(unresolved) ELSE max_items
        /\ IdsOf(LinesOf(lines, "resolved")) = IdsOf(LastN(WithStatus(fss, "resolved"), 3))
        /\ \A i \in DOMAIN lines : \A j \in DOMAIN abandoned :
              lines[i].k \in {"unresolved", "resolved"} => lines[i].id # abandoned[j]

\* C33: get_for_context lists the unresolved entries sorted by priority, every
\* high before every medium before every low, then the last three resolved
\* entries; abandoned entries are not listed
C33_ContextSortedByPriority ==
    lastCall.op = "get_for_context" =>
        /\ ListedByPriority(lastCall.lines)
        /\ ListedEntries(lastCall.lines, foreshadowings, lastCall.max_items)


----------------------------------------------------------------------------
(* Properties of the providers' generate_stream (SpecStream).              *)

\* the position of the terminal marker, or one past the last frame
MarkerAt(frames) ==
    LET ms == {i \in DOMAIN frames : frames[i] = "done"}
    IN  IF ms = {} THEN Len(frames) + 1 ELSE CHOOSE i \in ms : \A j \in ms : i <= j

\* the content frames among the first n frames, in order
ContentUpTo(frames, n) ==
    SelectSeq([i \in 1..n |-> i], LAMBDA i : frames[i] = "content")

\* C37: generate_stream yields, in order, the text of each well-formed content
\* frame received before the terminal marker, nothing after the marker, and a
\* malformed frame neither ends nor fails the stream
C37_StreamYieldsContentFrames ==
    LET last == MarkerAt(stream.frames) - 1
    IN  /\ stream.status # "failed"
        /\ stream.pos <= last + 1
        /\ stream.yielded =
              ContentUpTo(stream.frames, IF stream.pos < last THEN stream.pos ELSE last)
        /\ stream.status = "ended" => stream.pos >= Len(stream.frames) \/ stream.pos = last + 1

====
